---- MODULE Spec2Model ----
(***************************************************************************)
(* Model of the query/update expression algebra of mongoalchemy/spec.py.   *)
(*                                                                         *)
(* Python strings are sequences of atoms: a field name or an operator name *)
(* is one atom, and the separators ":", "$" and " " are atoms of their     *)
(* own, so that building an expression key and parsing it back are two     *)
(* different computations.  A dict is a function; the iteration order of a *)
(* dict is not fixed by the language, so every loop over a dict takes the  *)
(* order as a parameter and the actions choose it.                         *)
(***************************************************************************)
EXTENDS Integers, Sequences, FiniteSets, TLC

\* ------------------------------------------------------------------------
\* Bounds of the model
\* ------------------------------------------------------------------------
MaxOps == 2
MaxInt == 1
MaxCalls == 2
MaxDocs == 3
MaxConnects == 3

\* ------------------------------------------------------------------------
\* Python values
\* ------------------------------------------------------------------------
EmptyDict == [k \in {} |-> k]

IntV(i)    == [kind |-> "int",  n |-> i, b |-> FALSE, l |-> <<>>, s |-> <<>>, specs |-> <<>>, items |-> EmptyDict]
BoolV(t)   == [kind |-> "bool", n |-> 0, b |-> t,     l |-> <<>>, s |-> <<>>, specs |-> <<>>, items |-> EmptyDict]
ListV(xs)  == [kind |-> "list", n |-> 0, b |-> FALSE, l |-> xs,   s |-> <<>>, specs |-> <<>>, items |-> EmptyDict]
StrV(str)  == [kind |-> "str",  n |-> 0, b |-> FALSE, l |-> <<>>, s |-> str,  specs |-> <<>>, items |-> EmptyDict]
SpecsV(es) == [kind |-> "specs", n |-> 0, b |-> FALSE, l |-> <<>>, s |-> <<>>, specs |-> es,  items |-> EmptyDict]
DictV(d)   == [kind |-> "dict", n |-> 0, b |-> FALSE, l |-> <<>>, s |-> <<>>, specs |-> <<>>, items |-> d]
\* the outcome of a statement that raised: kind "raise", s names the exception
RaiseV(exc) == [kind |-> "raise", n |-> 0, b |-> FALSE, l |-> <<>>, s |-> <<exc>>, specs |-> <<>>, items |-> EmptyDict]

DictSet(d, k, v) == [x \in (DOMAIN d) \cup {k} |-> IF x = k THEN v ELSE d[x]]
DictDel(d, k)    == [x \in (DOMAIN d) \ {k} |-> d[x]]
DictGet(d, k, default) == IF k \in DOMAIN d THEN d[k] ELSE default

\* every order in which a loop can visit the keys of a dict
Orders(S) == {o \in [1..Cardinality(S) -> S] : \A i, j \in 1..Cardinality(S) : o[i] = o[j] => i = j}

\* truth value of a Python value, as `not` sees it
Truthy(v) ==
    CASE v.kind = "int"   -> v.n # 0
      [] v.kind = "bool"  -> v.b
      [] v.kind = "list"  -> v.l # <<>>
      [] v.kind = "str"   -> v.s # <<>>
      [] v.kind = "specs" -> v.specs # <<>>
      [] OTHER            -> v.items # EmptyDict

\* v = w where v += w was meant
PyAddLast(v, w) == w

\* v += w
PyAdd(v, w) ==
    CASE v.kind = "int"  /\ w.kind = "int"  -> IntV(v.n + w.n)
      [] v.kind = "list" /\ w.kind = "list" -> ListV(v.l \o w.l)
      [] v.kind = "str"  /\ w.kind = "str"  -> StrV(v.s \o w.s)
      [] OTHER -> RaiseV("TypeError")

\* the incoming list put in front of the existing one
PyExtendFront(v, w) ==
    CASE v.kind = "list"  /\ w.kind = "list"  -> ListV(w.l \o v.l)
      [] v.kind = "specs" /\ w.kind = "specs" -> SpecsV(w.specs \o v.specs)
      [] v.kind \in {"list", "specs"} -> RaiseV("TypeError")
      [] OTHER -> RaiseV("AttributeError")

\* v.extend(w)
PyExtend(v, w) ==
    CASE v.kind = "list"  /\ w.kind = "list"  -> ListV(v.l \o w.l)
      [] v.kind = "specs" /\ w.kind = "specs" -> SpecsV(v.specs \o w.specs)
      [] v.kind \in {"list", "specs"} -> RaiseV("TypeError")
      [] OTHER -> RaiseV("AttributeError")

\* ------------------------------------------------------------------------
\* Python strings
\* ------------------------------------------------------------------------
RECURSIVE IndexOf(_, _, _)
\* position of the first atom c of str at or after position i, 0 when absent
IndexOf(str, c, i) ==
    IF i > Len(str) THEN 0
    ELSE IF str[i] = c THEN i
    ELSE IndexOf(str, c, i + 1)

\* str.partition(sep): <<before, sep, after>>
Partition(str, sep) ==
    LET i == IndexOf(str, sep, 1) IN
    IF i = 0 THEN <<str, <<>>, <<>>>>
    ELSE <<SubSeq(str, 1, i - 1), <<sep>>, SubSeq(str, i + 1, Len(str))>>

RECURSIVE Split(_, _)
\* str.split(sep): the pieces between separators, empty pieces kept
Split(str, sep) ==
    LET i == IndexOf(str, sep, 1) IN
    IF i = 0 THEN <<str>>
    ELSE <<SubSeq(str, 1, i - 1)>> \o Split(SubSeq(str, i + 1, Len(str)), sep)

\* str.split(): split on blanks, empty pieces dropped
SplitBlank(str) == SelectSeq(Split(str, " "), LAMBDA p : p # <<>>)

RECURSIVE Join(_, _)
\* sep.join(parts)
Join(parts, sep) ==
    IF parts = <<>> THEN <<>>
    ELSE IF Len(parts) = 1 THEN parts[1]
    ELSE parts[1] \o <<sep>> \o Join(Tail(parts), sep)

StartsWith(str, c) == str # <<>> /\ str[1] = c
EndsWith(str, c)   == str # <<>> /\ str[Len(str)] = c

\* list.remove(x): the list without its first x; absent x is reported
ListIndex(xs, x) == IF \E i \in 1..Len(xs) : xs[i] = x
                    THEN CHOOSE i \in 1..Len(xs) : xs[i] = x /\ \A j \in 1..(i - 1) : xs[j] # x
                    ELSE 0
ListRemove(xs, x) == LET i == ListIndex(xs, x) IN
                     IF i = 0 THEN xs ELSE SubSeq(xs, 1, i - 1) \o SubSeq(xs, i + 1, Len(xs))

\* ------------------------------------------------------------------------
\* Specification objects: [cls, expressions]
\* ------------------------------------------------------------------------
Exceptions == {"ValueError", "AttributeError", "TypeError"}

New(cls, d)  == [cls |-> cls, expressions |-> d]
Raised(exc)  == [cls |-> exc, expressions |-> EmptyDict]
IsRaised(e)  == e.cls \in Exceptions

\* result of a helper that returns a dict or raises
Ok(d)        == [exc |-> "", d |-> d]
Fail(exc)    == [exc |-> exc, d |-> EmptyDict]

\* Specification.clone: deepcopy; values of the model are not shared
clone(e) == e

\* QuerySpecification._set_expression(k, ops, v)
QSetExpression(d, k, ops, v) == DictSet(d, k \o <<":">> \o Join(SplitBlank(ops), ":"), v)

\* UpdateSpecification._set_expression(op, k, v)
USetExpression(d, op, k, v) == DictSet(d, op \o <<":">> \o k, v)

\* Specification.__init__ on a list [k, ops, v] of a query class
QInit(cls, k, ops, v) == New(cls, QSetExpression(EmptyDict, k, ops, v))

\* Specification.__init__ on a list [op, k, v] of UpdateSpecification
UInit(op, k, v) == New("UpdateSpecification", USetExpression(EmptyDict, op, k, v))

\* QuerySpecification._parse_expression(expr): <<key, ops>>
ParseExpression(expr) ==
    LET ko  == IF StartsWith(expr, ":") THEN <<<<>>, Tail(expr)>>
               ELSE IF EndsWith(expr, ":") THEN <<SubSeq(expr, 1, Len(expr) - 1), <<>>>>
               ELSE LET p == Partition(expr, ":") IN <<p[1], p[3]>>
        ops == Split(ko[2], ":")
    IN  <<ko[1], ListRemove(ops, <<>>)>>

\* the key an operator chain is stored under: key + ':' + ':'.join(ops)
ExprKey(key, ops) == key \o <<":">> \o Join(ops, ":")

RECURSIVE PutPathFresh(_, _, _)
\* the walk with d[key] = {} in place of d[key] = d.get(key, {})
PutPathFresh(node, path, val) ==
    IF path = <<>> THEN val
    ELSE IF node.kind # "dict" THEN RaiseV("AttributeError")
    ELSE LET sub == PutPathFresh(DictV(EmptyDict), Tail(path), val)
         IN  DictV(DictSet(node.items, Head(path), sub))

RECURSIVE PutPath(_, _, _)
\* One round of the loop of QuerySpecification.compile on the document node:
\* walk path, creating the missing mappings, and store val at its end.  The
\* walk calls .get on every node it passes through, which only a mapping has.
PutPath(node, path, val) ==
    IF path = <<>> THEN val
    ELSE IF node.kind # "dict" THEN RaiseV("AttributeError")
    ELSE LET sub == PutPath(DictGet(node.items, Head(path), DictV(EmptyDict)), Tail(path), val)
         IN  IF sub.kind = "raise" THEN sub
             ELSE DictV(DictSet(node.items, Head(path), sub))

\* the path of document keys of an expression: key, then '$' + op per operator
DocPath(expr) == LET p == ParseExpression(expr)
                 IN  <<p[1]>> \o [i \in 1..Len(p[2]) |-> <<"$">> \o p[2][i]]

RECURSIVE QCompileFrom(_, _, _)
QCompileFrom(doc, e, order) ==
    IF order = <<>> \/ doc.kind = "raise" THEN doc
    ELSE QCompileFrom(PutPath(doc, DocPath(Head(order)), e.expressions[Head(order)]), e, Tail(order))

\* QuerySpecification.compile, visiting the expressions in the given order
QCompile(e, order) == QCompileFrom(DictV(EmptyDict), e, order)

\* the part of a document a path of keys leads to
RECURSIVE Sub(_, _)
Sub(node, path) ==
    IF path = <<>> THEN node
    ELSE IF node.kind = "dict" /\ Head(path) \in DOMAIN node.items THEN Sub(node.items[Head(path)], Tail(path))
    ELSE RaiseV("KeyError")
IsPrefix(p, q) == Len(p) <= Len(q) /\ SubSeq(q, 1, Len(p)) = p

RECURSIVE QCompileHeldFrom(_, _, _, _)
\* The operands after the loop of QuerySpecification.compile.  path[-2][last_key] = val
\* puts the operand itself into the document, and a later round that walks
\* through it runs current[last_key] = current.get(last_key, {}) and
\* path[-2][last_key] = val on it: a mapping operand then holds what the
\* document holds at its place, until a later val is stored over it.  A
\* round that raises does so on .get, before it has written anything new.
QCompileHeldFrom(doc_v, exprs, placed, order) ==
    IF order = <<>> THEN exprs
    ELSE LET x  == Head(order)
             d2 == PutPath(doc_v, DocPath(x), exprs[x])
         IN  IF d2.kind = "raise" THEN exprs
             ELSE LET still == {y \in placed : ~IsPrefix(DocPath(x), DocPath(y))} \cup {x}
                  IN  QCompileHeldFrom(d2,
                                       [y \in DOMAIN exprs |->
                                           IF y \in still /\ exprs[y].kind = "dict"
                                           THEN Sub(d2, DocPath(y)) ELSE exprs[y]],
                                       still, Tail(order))

\* the expressions of e after e.compile()
QCompileHeld(e, order) == QCompileHeldFrom(DictV(EmptyDict), e.expressions, {}, order)

\* every document compile can return for e (one per iteration order)
QCompiles(e) == {QCompile(e, o) : o \in Orders(DOMAIN e.expressions)}

RECURSIVE UCompileFromFresh(_, _, _)
\* the loop of UpdateSpecification.compile with d['$' + op] = {k: v}
UCompileFromFresh(doc, e, order) ==
    IF order = <<>> THEN doc
    ELSE LET p   == Partition(Head(order), ":")
             top == <<"$">> \o p[1]
         IN  UCompileFromFresh(DictV(DictSet(doc.items, top,
                                   DictV(DictSet(EmptyDict, p[3], e.expressions[Head(order)])))),
                               e, Tail(order))

RECURSIVE UCompileFrom(_, _, _)
UCompileFrom(doc, e, order) ==
    IF order = <<>> THEN doc
    ELSE LET p   == Partition(Head(order), ":")
             top == <<"$">> \o p[1]
             sub == DictGet(doc.items, top, DictV(EmptyDict))
         IN  UCompileFrom(DictV(DictSet(doc.items, top,
                              DictV(DictSet(sub.items, p[3], e.expressions[Head(order)])))),
                          e, Tail(order))

\* UpdateSpecification.compile
UCompile(e, order) == UCompileFrom(DictV(EmptyDict), e, order)

UCompiles(e) == {UCompile(e, o) : o \in Orders(DOMAIN e.expressions)}

\* ------------------------------------------------------------------------
\* QuerySpecification: inversion
\* ------------------------------------------------------------------------
RECURSIVE InvertOpFromAppend(_, _, _)
\* the loop of _invert_op with ops.append(op) in place of ops.insert(0, op)
InvertOpFromAppend(d, op, order) ==
    IF order = <<>> THEN Ok(d)
    ELSE LET expr == Head(order)
             p    == ParseExpression(expr)
             ops  == IF ListIndex(p[2], op) = 0 THEN p[2] \o <<op>> ELSE ListRemove(p[2], op)
         IN  InvertOpFromAppend(DictDel(DictSet(d, ExprKey(p[1], ops), d[expr]), expr), op, Tail(order))

RECURSIVE InvertOpFrom(_, _, _)
\* the loop of _invert_op over the expressions still to visit: the operator
\* is put at the front of the chain when absent and removed when present
InvertOpFrom(d, op, order) ==
    IF order = <<>> THEN Ok(d)
    ELSE LET expr == Head(order)
             p    == ParseExpression(expr)
             ops  == IF ListIndex(p[2], op) = 0 THEN <<op>> \o p[2] ELSE ListRemove(p[2], op)
         IN  InvertOpFrom(DictDel(DictSet(d, ExprKey(p[1], ops), d[expr]), expr), op, Tail(order))

\* QuerySpecification._invert_op(op)
InvertOp(e, op, order) == InvertOpFrom(clone(e).expressions, op, order)

RECURSIVE SwapOpFromKeep(_, _, _, _)
\* the loop of _swap_op without its del spec[expr]
SwapOpFromKeep(d, old_op, new_op, order) ==
    IF order = <<>> THEN Ok(d)
    ELSE LET expr == Head(order)
             p    == ParseExpression(expr)
             i    == ListIndex(p[2], old_op)
         IN  IF i = 0 THEN Fail("ValueError")
             ELSE SwapOpFromKeep(DictSet(d, ExprKey(p[1], [p[2] EXCEPT ![i] = new_op]), d[expr]),
                                 old_op, new_op, Tail(order))

RECURSIVE SwapOpFrom(_, _, _, _)
\* the loop of _swap_op: ops.index(old_op) raises ValueError when absent
SwapOpFrom(d, old_op, new_op, order) ==
    IF order = <<>> THEN Ok(d)
    ELSE LET expr == Head(order)
             p    == ParseExpression(expr)
             i    == ListIndex(p[2], old_op)
         IN  IF i = 0 THEN Fail("ValueError")
             ELSE SwapOpFrom(DictDel(DictSet(d, ExprKey(p[1], [p[2] EXCEPT ![i] = new_op]), d[expr]), expr),
                             old_op, new_op, Tail(order))

\* QuerySpecification._swap_op(old_op, new_op)
SwapOp(e, old_op, new_op, order) == SwapOpFrom(clone(e).expressions, old_op, new_op, order)

\* cls(helper result): the constructor runs only when the helper returned
Wrap(cls, r) == IF r.exc # "" THEN Raised(r.exc) ELSE New(cls, r.d)

\* Exists.__invert__: every operand is replaced by its negation
ExistsInvert(e) == New("Exists", [k \in DOMAIN e.expressions |-> BoolV(~Truthy(e.expressions[k]))])

\* __invert__, dispatched on the class of the expression
Invert(e, order) ==
    CASE e.cls = "Equal"            -> Wrap("NotEqual",         InvertOp(e, <<"ne">>, order))
      [] e.cls = "NotEqual"         -> Wrap("LessThan",         InvertOp(e, <<"ne">>, order))
      [] e.cls = "LessThan"         -> Wrap("GreaterThanEqual", SwapOp(e, <<"lt">>,  <<"gt">>,  order))
      [] e.cls = "GreaterThan"      -> Wrap("GreaterThanEqual", SwapOp(e, <<"gt">>,  <<"lt">>,  order))
      [] e.cls = "LessThanEqual"    -> Wrap("GreaterThanEqual", SwapOp(e, <<"lte">>, <<"gte">>, order))
      [] e.cls = "GreaterThanEqual" -> Wrap("LessThanEqual",    SwapOp(e, <<"gte">>, <<"lte">>, order))
      [] e.cls = "In"               -> Wrap("NotIn",            SwapOp(e, <<"in">>,  <<"nin">>, order))
      [] e.cls = "NotIn"            -> Wrap("In",               SwapOp(e, <<"nin">>, <<"in">>,  order))
      [] e.cls = "Exists"           -> ExistsInvert(e)
      [] OTHER                      -> Wrap("QuerySpecification", InvertOp(e, <<"not">>, order))

\* ------------------------------------------------------------------------
\* QuerySpecification: | and &
\* ------------------------------------------------------------------------
OrKey == <<":", "or">>

\* an __or__ that extends the child list of a left operand that is an OR
OrFlat(e, other) ==
    IF <<":", "or">> \in DOMAIN e.expressions
    THEN New("QuerySpecification",
             DictSet(e.expressions, <<":", "or">>,
                     SpecsV(Append(e.expressions[<<":", "or">>].specs, other))))
    ELSE QInit("QuerySpecification", <<>>, <<"or">>, SpecsV(<<e, other>>))

\* QuerySpecification.__or__ (also __ior__)
Or(e, other) == QInit("QuerySpecification", <<>>, <<"or">>, SpecsV(<<clone(e), clone(other)>>))

RECURSIVE QAndFrom(_, _, _)
QAndFrom(spec, other, order) ==
    IF order = <<>> \/ IsRaised(spec) THEN spec
    ELSE LET expr == Head(order) IN
         IF expr \in DOMAIN spec.expressions /\ expr = OrKey
         THEN LET ext == PyExtend(spec.expressions[expr], other.expressions[expr])
              IN  IF ext.kind = "raise" THEN Raised(ext.s[1])
                  ELSE QAndFrom(New(spec.cls, DictSet(spec.expressions, expr, ext)), other, Tail(order))
         ELSE QAndFrom(New(spec.cls, DictSet(spec.expressions, expr, other.expressions[expr])), other, Tail(order))

\* QuerySpecification.__and__ (also __iand__): the result keeps the class of
\* the left operand
QAnd(e, other, order) == QAndFrom(clone(e), other, order)

\* ------------------------------------------------------------------------
\* UpdateSpecification: &
\* ------------------------------------------------------------------------
\* key.startswith(prefix)
HasPrefix(str, prefix) == Len(str) >= Len(prefix) /\ SubSeq(str, 1, Len(prefix)) = prefix

RECURSIVE UAndFromKeep(_, _, _)
\* the loop of UpdateSpecification.__and__ where a key already present keeps
\* its operand
UAndFromKeep(spec, other, order) ==
    IF order = <<>> THEN spec
    ELSE LET key == Head(order) IN
         IF key \in DOMAIN spec.expressions
         THEN UAndFromKeep(spec, other, Tail(order))
         ELSE UAndFromKeep(New(spec.cls, DictSet(spec.expressions, key, other.expressions[key])),
                           other, Tail(order))

RECURSIVE UAndFromDropUnset(_, _, _)
\* the loop of UpdateSpecification.__and__ with a rule that removes the unset
\* entry of the field an incoming key names
UAndFromDropUnset(spec, other, order) ==
    IF order = <<>> THEN spec
    ELSE LET key == Head(order)
             fld == Partition(key, ":")[3]
         IN  UAndFromDropUnset(New(spec.cls, DictSet(DictDel(spec.expressions, <<"unset", ":">> \o fld),
                                                     key, other.expressions[key])),
                               other, Tail(order))

RECURSIVE UAndFrom(_, _, _)
UAndFrom(spec, other, order) ==
    IF order = <<>> \/ IsRaised(spec) THEN spec
    ELSE LET key == Head(order)
             v   == other.expressions[key]
             cur == spec.expressions[key]
         IN  IF key \in DOMAIN spec.expressions /\ (HasPrefix(key, <<"pushAll", ":">>) \/ HasPrefix(key, <<"pullAll", ":">>))
             THEN LET ext == PyExtend(cur, v)
                  IN  IF ext.kind = "raise" THEN Raised(ext.s[1])
                      ELSE UAndFrom(New(spec.cls, DictSet(spec.expressions, key, ext)), other, Tail(order))
             ELSE IF key \in DOMAIN spec.expressions /\ HasPrefix(key, <<"inc", ":">>)
             THEN LET sum == PyAdd(cur, v)
                  IN  IF sum.kind = "raise" THEN Raised(sum.s[1])
                      ELSE UAndFrom(New(spec.cls, DictSet(spec.expressions, key, sum)), other, Tail(order))
             ELSE UAndFrom(New(spec.cls, DictSet(spec.expressions, key, v)), other, Tail(order))

\* UpdateSpecification.__and__
UAnd(e, other, order) == UAndFrom(clone(e), other, order)

\* ------------------------------------------------------------------------
\* Leaf terms, as the field operations build them
\* ------------------------------------------------------------------------
Fields == {<<"f">>, <<"g">>}
Ints   == 0..MaxInt
IntLists == {<<0>>, <<0, MaxInt>>}

QueryOps == {"eq", "ne", "lt", "gt", "lte", "gte", "in", "nin", "exists",
             "mod", "all", "size", "type", "where"}

\* the class a comparison returns
ClassOf(op) ==
    CASE op = "eq"  -> "Equal"          [] op = "ne"     -> "NotEqual"
      [] op = "lt"  -> "LessThan"       [] op = "gt"     -> "GreaterThan"
      [] op = "lte" -> "LessThanEqual"  [] op = "gte"    -> "GreaterThanEqual"
      [] op = "in"  -> "In"             [] op = "nin"    -> "NotIn"
      [] op = "exists" -> "Exists"      [] op = "mod"    -> "Mod"
      [] op = "all" -> "All"            [] op = "size"   -> "Size"
      [] op = "type" -> "Type"          [] OTHER         -> "Where"

\* the operands a comparison accepts in this model
Operands(op) ==
    CASE op \in {"eq", "ne", "lt", "gt", "lte", "gte", "size", "type"} -> {IntV(i) : i \in Ints}
      [] op \in {"in", "nin", "all", "mod"} -> {ListV(xs) : xs \in IntLists}
      [] op = "exists" -> {BoolV(TRUE), BoolV(FALSE)}
      [] OTHER -> {StrV(<<"js">>)}

\* field <op> v: the class of the operator built on [key, op, v]; equality
\* has the empty operator string
Leaf(op, field, v) == QInit(ClassOf(op), field, IF op = "eq" THEN <<>> ELSE <<op>>, v)

\* field % a != b: the two-operator leaf 'not mod'
NotModLeaf(field, v) == QInit("Mod", field, <<"not", " ", "mod">>, v)

UpdateOps == {"set", "unset", "inc", "dec", "push", "pushAll", "pull", "pullAll",
              "addToSet", "pop", "popleft"}

UOperands(op) ==
    CASE op \in {"set", "push", "pull", "addToSet", "inc", "dec"} -> {IntV(i) : i \in Ints}
      [] op \in {"pushAll", "pullAll"} -> {ListV(xs) : xs \in IntLists}
      [] OTHER -> {IntV(1)}

\* field.<op>(v): dec(n) is inc(-n), unset and pop carry 1, popleft is pop -1
ULeaf(op, field, v) ==
    CASE op = "dec"     -> UInit(<<"inc">>, field, IntV(0 - v.n))
      [] op = "popleft" -> UInit(<<"pop">>, field, IntV(0 - 1))
      [] op \in {"unset", "pop"} -> UInit(<<op>>, field, IntV(1))
      [] OTHER          -> UInit(<<op>>, field, v)

\* ------------------------------------------------------------------------
\* The statement under construction
\* ------------------------------------------------------------------------
VARIABLES first, prev, cur, log, doc
\* the operands handed to the operators, as the objects they are now, and
\* the keys under which cur holds the very object the last operand holds
VARIABLES live, shared
\* the tracked document of the second specification
VARIABLES record, snapshot, ret, call, before, calls, stored
\* two tracked documents and the objects they are made of
VARIABLES heap, data_of, base_of, acted, steps
\* an Eagerload and the documents added to it
VARIABLES documents, refs, multi, flushes
\* the connection cache
VARIABLES connections, created, answer, asked

vars == <<first, prev, cur, log, doc, live, shared>>
RVars == <<record, snapshot, ret, call, before, calls, stored>>
HVars == <<heap, data_of, base_of, acted, steps>>
EVars == <<documents, refs, multi, flushes>>
CVars == <<connections, created, answer, asked>>

NoExpr == New("None", EmptyDict)
NoDoc  == [kind |-> "none", n |-> 0, b |-> FALSE, l |-> <<>>, s |-> <<>>, specs |-> <<>>, items |-> EmptyDict]

IsUpdate(e) == e.cls = "UpdateSpecification"
IsQuery(e)  == ~IsUpdate(e) /\ ~IsRaised(e) /\ e # NoExpr

QLeaves == {Leaf(op, <<"f">>, v) : <<op, v>> \in UNION {{op} \X Operands(op) : op \in QueryOps}}
             \cup {NotModLeaf(<<"f">>, v) : v \in Operands("mod")}
ULeaves == {ULeaf(op, <<"f">>, v) : <<op, v>> \in UNION {{op} \X UOperands(op) : op \in UpdateOps}}

\* right operands of | and &: leaves on both fields and one OR composite
QArgLeaves == {Leaf(op, <<"f">>, CHOOSE v \in Operands(op) : Truthy(v)) : op \in {"eq", "ne", "lt", "gt", "in", "mod"}}
                \cup {Leaf("eq", <<"g">>, IntV(0))}
\* an embedded document as the operand of an equality
Subdoc == DictV([k \in {<<"a">>} |-> IntV(0)])
QArgs == QArgLeaves \cup {Or(Leaf("lte", <<"g">>, IntV(MaxInt)), Leaf("exists", <<"f">>, BoolV(TRUE))),
                          Leaf("eq", <<"f">>, Subdoc)}

\* right operands of & on updates
UArgs == {ULeaf(op, <<"f">>, CHOOSE v \in UOperands(op) : Truthy(v)) : op \in UpdateOps}
           \cup {ULeaf("inc", <<"f">>, IntV(MaxInt + 1)), ULeaf("pushAll", <<"f">>, ListV(<<0>>)),
                 ULeaf("set", <<"g">>, IntV(0))}

Entry(op, arg) == [op |-> op, arg |-> arg]

\* the state of a specification while another one runs
SIdle == first = NoExpr /\ prev = NoExpr /\ cur = NoExpr /\ log = <<>> /\ doc = NoDoc /\ live = <<>> /\ shared = {}
RIdle ==
    /\ record = NoDoc /\ snapshot = NoDoc /\ ret = NoDoc /\ before = NoDoc
    /\ call = [op |-> "", k |-> <<>>, v |-> NoDoc, j |-> NoDoc, update |-> FALSE]
    /\ calls = 0
    /\ stored = NoDoc
HIdle == heap = <<>> /\ data_of = <<>> /\ base_of = <<>> /\ acted = 0 /\ steps = 0
EIdle == documents = <<>> /\ refs = <<>> /\ multi = FALSE /\ flushes = 0
CIdle == connections = EmptyDict /\ created = <<>> /\ answer = <<>> /\ asked = <<>>

Init ==
    /\ first \in QLeaves \cup ULeaves
    /\ prev = NoExpr
    /\ cur = first
    /\ log = <<>>
    /\ doc = NoDoc
    /\ live = <<>>
    /\ shared = {}
    /\ RIdle /\ HIdle /\ EIdle /\ CIdle

\* the keys of the result of & that hold the operand's own value object:
\* QuerySpecification.__and__ stores other[expr] itself, except where it
\* extends the list of an OR node it already has; every other operator
\* works on copies
SharedKeys(op, arg, result) ==
    IF op = "and" /\ ~IsRaised(result)
    THEN {expr \in DOMAIN arg.expressions : ~(expr = <<":", "or">> /\ expr \in DOMAIN cur.expressions)}
    ELSE {}

Step(op, arg, result) ==
    /\ prev' = cur
    /\ cur' = result
    /\ log' = Append(log, Entry(op, arg))
    /\ live' = Append(live, arg)
    /\ shared' = SharedKeys(op, arg, result)
    /\ doc' = NoDoc
    /\ UNCHANGED <<first, RVars, HVars, EVars, CVars>>

\* stmt = ~stmt
DoInvert ==
    /\ IsQuery(cur) /\ Len(log) < MaxOps
    /\ \E order \in Orders(DOMAIN cur.expressions) : Step("invert", NoExpr, Invert(cur, order))

\* stmt |= arg
DoOr ==
    /\ IsQuery(cur) /\ Len(log) < MaxOps
    /\ \E arg \in QArgs : Step("or", arg, Or(cur, arg))

\* stmt &= arg, on query expressions
DoAnd ==
    /\ IsQuery(cur) /\ Len(log) < MaxOps
    /\ \E arg \in QArgs : \E order \in Orders(DOMAIN arg.expressions) :
           Step("and", arg, QAnd(cur, arg, order))

\* update &= arg, on update expressions
DoMerge ==
    /\ IsUpdate(cur) /\ Len(log) < MaxOps
    /\ \E arg \in UArgs : \E order \in Orders(DOMAIN arg.expressions) :
           Step("merge", arg, UAnd(cur, arg, order))

\* stmt.compile()
\* the loop of compile writes into the mappings it walks through, and a
\* mapping it walks through is the operand of an expression; the operand of
\* the last argument of & is the same object where cur shares it
DoCompile ==
    /\ ~IsRaised(cur) /\ doc = NoDoc
    /\ \E order \in Orders(DOMAIN cur.expressions) :
           /\ doc' = IF IsUpdate(cur) THEN UCompile(cur, order) ELSE QCompile(cur, order)
           /\ LET held == IF IsUpdate(cur) THEN cur.expressions ELSE QCompileHeld(cur, order)
              IN  /\ cur' = New(cur.cls, held)
                  /\ live' = IF shared = {} THEN live
                             ELSE [live EXCEPT ![Len(live)] =
                                      New(@.cls, [k \in DOMAIN @.expressions |->
                                                     IF k \in shared THEN held[k] ELSE @.expressions[k]])]
    /\ UNCHANGED <<first, prev, log, shared, RVars, HVars, EVars, CVars>>

Next == DoInvert \/ DoOr \/ DoAnd \/ DoMerge \/ DoCompile

Spec == Init /\ [][Next]_vars

\* ------------------------------------------------------------------------
\* Vocabulary of the properties
\* ------------------------------------------------------------------------
Dollar(op) == <<"$", op>>
Doc1(k, v) == DictV([x \in {k} |-> v])
Doc2(k1, v1, k2, v2) == DictV([x \in {k1, k2} |-> IF x = k1 THEN v1 ELSE v2])

\* the compiled form of the leaf field <op> v
LeafDoc(op, field, v) == IF op = "eq" THEN Doc1(field, v) ELSE Doc1(field, Doc1(Dollar(op), v))

\* the key of the leaf field <op> v in an expression
LeafKey(op, field) == IF op = "eq" THEN field \o <<":">> ELSE field \o <<":", op>>

\* the complement table of the ordering, equality and membership operators
Complement(op) ==
    CASE op = "eq"  -> "ne"   [] op = "ne"  -> "eq"
      [] op = "lt"  -> "gt"   [] op = "gt"  -> "lt"
      [] op = "lte" -> "gte"  [] op = "gte" -> "lte"
      [] op = "in"  -> "nin"  [] OTHER      -> "in"

TableOps    == {"eq", "ne", "lt", "gt", "lte", "gte", "in", "nin"}
OrderingOps == {"lt", "gt", "lte", "gte"}
WrappedOps  == {"mod", "all", "size", "type", "where"}

LeafCases == UNION {{op} \X {<<"f">>} \X Operands(op) : op \in QueryOps}

Inverted     == Len(log) = 1 /\ log[1].op = "invert"
InvertedTwice == Len(log) = 2 /\ log[1].op = "invert" /\ log[2].op = "invert"

\* C1: applying ~ twice to a single-operator leaf raises nothing and gives an
\* expression that compiles to the document of the leaf.
C1_DoubleInversionIsIdentity ==
    InvertedTwice =>
        \A c \in LeafCases :
            first = Leaf(c[1], c[2], c[3])
                => /\ ~IsRaised(cur)
                   /\ QCompiles(cur) = {LeafDoc(c[1], c[2], c[3])}

UKey(op, field) == <<op, ":">> \o field

LastOp  == log[Len(log)].op
LastArg == log[Len(log)].arg

RECURSIVE SumOperands(_, _)
SumOperands(lg, k) == IF lg = <<>> THEN 0 ELSE lg[1].arg.expressions[k].n + SumOperands(Tail(lg), k)

\* C3: merging two updates that both carry inc on a field gives one inc entry
\* whose operand is the sum; over a chain of inc merges it is the sum of all
\* the operands merged so far.
C3_IncMergeSums ==
    (log # <<>> /\ LastOp = "merge") =>
        \A fld \in Fields :
            LET k == UKey("inc", fld) IN
            /\ (k \in DOMAIN prev.expressions /\ k \in DOMAIN LastArg.expressions)
                   => /\ ~IsRaised(cur)
                      /\ cur.expressions[k] = IntV(prev.expressions[k].n + LastArg.expressions[k].n)
            /\ (k \in DOMAIN first.expressions /\ \A i \in 1..Len(log) : k \in DOMAIN log[i].arg.expressions)
                   => /\ ~IsRaised(cur)
                      /\ cur.expressions = [x \in {k} |-> IntV(first.expressions[k].n + SumOperands(log, k))]
                      /\ UCompiles(cur) = {Doc1(Dollar("inc"), Doc1(fld, IntV(first.expressions[k].n + SumOperands(log, k))))}

C3_Witness ==
    LET k == UKey("inc", <<"f">>) IN
    /\ Len(log) = 2 /\ k \in DOMAIN first.expressions
    /\ \A i \in 1..2 : log[i].op = "merge" /\ k \in DOMAIN log[i].arg.expressions
    /\ log[1].arg.expressions[k].n < 0 /\ log[2].arg.expressions[k].n > 1
    /\ first.expressions[k].n > 0
    /\ ~IsRaised(cur)
    /\ cur.expressions[k].n = first.expressions[k].n + log[1].arg.expressions[k].n + log[2].arg.expressions[k].n

\* C4: merging two updates that both carry pushAll (or both pullAll) on a
\* field gives one entry whose operand is the left list followed by the right
\* list, duplicates kept.
C4_PushAllMergeConcatenates ==
    (log # <<>> /\ LastOp = "merge") =>
        \A fld \in Fields : \A op \in {"pushAll", "pullAll"} :
            LET k == UKey(op, fld) IN
            (k \in DOMAIN prev.expressions /\ k \in DOMAIN LastArg.expressions)
                => /\ ~IsRaised(cur)
                   /\ cur.expressions[k] = ListV(prev.expressions[k].l \o LastArg.expressions[k].l)
                   /\ doc # NoDoc => doc.items[Dollar(op)].items[fld]
                                        = ListV(prev.expressions[k].l \o LastArg.expressions[k].l)

C4_Witness ==
    LET k == UKey("pushAll", <<"f">>) IN
    /\ first = ULeaf("pushAll", <<"f">>, ListV(<<0, MaxInt>>))
    /\ Len(log) = 1 /\ LastOp = "merge"
    /\ k \in DOMAIN LastArg.expressions /\ LastArg.expressions[k] = ListV(<<0>>)
    /\ doc = Doc1(Dollar("pushAll"), Doc1(<<"f">>, ListV(<<0, MaxInt, 0>>)))

\* ------------------------------------------------------------------------
\* OR composites
\* ------------------------------------------------------------------------
IsOrNode(e) == DOMAIN e.expressions = {OrKey}
Children(e) == e.expressions[OrKey].specs

\* C5: a | b compiles to a document whose only top-level key is $or, holding
\* the two-element list [compile(a), compile(b)].
C5_OrCompilesToDollarOr ==
    (log # <<>> /\ LastOp = "or" /\ doc # NoDoc) =>
        /\ doc.kind = "dict"
        /\ DOMAIN doc.items = {Dollar("or")}
        /\ Len(doc.items[Dollar("or")].specs) = 2
        /\ QCompiles(doc.items[Dollar("or")].specs[1]) = QCompiles(prev)
        /\ QCompiles(doc.items[Dollar("or")].specs[2]) = QCompiles(LastArg)

\* C6 as stated: (a | b) | c is one OR node with the three children a, b, c.
C6_RepeatedOrFlattens ==
    (/\ Len(log) = 2 /\ log[1].op = "or" /\ log[2].op = "or"
     /\ ~IsOrNode(log[1].arg) /\ ~IsOrNode(log[2].arg))
        => /\ IsOrNode(cur)
           /\ Children(cur) = <<first, log[1].arg, log[2].arg>>

\* C6 amended: every | builds an OR node with exactly two children, its left
\* operand and its right operand, so (a | b) | c holds the node (a | b) and c.
C6_RepeatedOrNests ==
    (log # <<>> /\ LastOp = "or") =>
        /\ IsOrNode(cur)
        /\ Children(cur) = <<prev, LastArg>>
        /\ (Len(log) = 2 /\ log[1].op = "or")
               => /\ IsOrNode(prev)
                  /\ Children(prev) = <<first, log[1].arg>>

C6_Witness ==
    /\ Len(log) = 2 /\ log[1].op = "or" /\ log[2].op = "or"
    /\ ~IsOrNode(log[1].arg) /\ ~IsOrNode(log[2].arg)
    /\ Children(cur) = <<prev, log[2].arg>>
    /\ Children(Children(cur)[1]) = <<first, log[1].arg>>

\* C7: (a | b) & (c | d) is one OR composite with the children a, b, c, d in
\* that order, and equals the document {$or: [a, b, c, d]}.
C7_AndOfOrsConcatenatesChildren ==
    (/\ Len(log) = 2 /\ log[1].op = "or" /\ log[2].op = "and"
     /\ IsOrNode(log[2].arg) /\ doc # NoDoc)
        => /\ IsOrNode(cur)
           /\ Children(cur) = Children(prev) \o Children(log[2].arg)
           /\ doc.kind = "dict"
           /\ DOMAIN doc.items = {Dollar("or")}
           /\ doc.items[Dollar("or")].specs = Children(prev) \o Children(log[2].arg)

\* ------------------------------------------------------------------------
\* Inversion of a leaf
\* ------------------------------------------------------------------------
\* C8: ~ maps a single-operator leaf to the leaf of the complement operator
\* on the same field with the same operand (eq<->ne, lt<->gt, lte<->gte,
\* in<->nin), and exists(b) to exists(not b).
C8_InversionFollowsTable ==
    Inverted =>
        \A c \in LeafCases :
            first = Leaf(c[1], c[2], c[3]) =>
                /\ c[1] \in TableOps
                       => /\ ~IsRaised(cur)
                          /\ cur.expressions = [k \in {LeafKey(Complement(c[1]), c[2])} |-> c[3]]
                          /\ doc # NoDoc => doc = LeafDoc(Complement(c[1]), c[2], c[3])
                /\ c[1] = "exists"
                       => /\ ~IsRaised(cur)
                          /\ cur.expressions = [k \in {LeafKey("exists", c[2])} |-> BoolV(~c[3].b)]
                          /\ doc # NoDoc => doc = LeafDoc("exists", c[2], BoolV(~c[3].b))

C8_Witness ==
    /\ first = Leaf("lt", <<"f">>, IntV(MaxInt))
    /\ Inverted
    /\ doc = Doc1(<<"f">>, Doc1(Dollar("gt"), IntV(MaxInt)))

\* the logical negation of an ordering operator
Negation(op) ==
    CASE op = "lt" -> "gte" [] op = "gte" -> "lt" [] op = "gt" -> "lte" [] OTHER -> "gt"

\* whether the integer x satisfies every condition of a comparison expression
Matches(e, x) ==
    \A k \in DOMAIN e.expressions :
        LET v == e.expressions[k].n IN
        CASE Len(k) = 2     -> x = v
          [] k[3] = "ne"    -> x # v
          [] k[3] = "lt"    -> x < v
          [] k[3] = "gt"    -> x > v
          [] k[3] = "lte"   -> x <= v
          [] OTHER          -> x >= v

\* C9: the inverse of an ordering comparison is its logical negation (lt<->gte,
\* gt<->lte): every integer is matched by exactly one of a leaf and its inverse.
C9_InversionIsLogicalNegation ==
    Inverted =>
        \A c \in LeafCases :
            (c[1] \in OrderingOps /\ first = Leaf(c[1], c[2], c[3])) =>
                /\ ~IsRaised(cur)
                /\ cur.expressions = [k \in {LeafKey(Negation(c[1]), c[2])} |-> c[3]]
                /\ \A x \in (0 - 1)..(MaxInt + 1) : Matches(first, x) # Matches(cur, x)

\* C10: ~ on a mod, all, size, type or where leaf keeps operator and operand
\* and puts not in front of the chain: it compiles to {f: {$not: {$op: v}}}.
C10_InversionWrapsInNot ==
    Inverted =>
        \A c \in LeafCases :
            (c[1] \in WrappedOps /\ first = Leaf(c[1], c[2], c[3])) =>
                /\ ~IsRaised(cur)
                /\ cur.expressions = [k \in {c[2] \o <<":", "not", ":", c[1]>>} |-> c[3]]
                /\ doc # NoDoc => doc = Doc1(c[2], Doc1(Dollar("not"), Doc1(Dollar(c[1]), c[3])))

C10_Witness ==
    /\ first = Leaf("mod", <<"f">>, ListV(<<0, MaxInt>>))
    /\ Inverted
    /\ doc = Doc1(<<"f">>, Doc1(Dollar("not"), Doc1(Dollar("mod"), ListV(<<0, MaxInt>>))))


\* ------------------------------------------------------------------------
\* Inversion of a composite
\* ------------------------------------------------------------------------
\* the leaves reachable in an expression, as <<key, operand>> pairs: its own
\* entries and those of the children of an OR, one level down
LeavesOf(e) ==
    {<<k, e.expressions[k]>> : k \in (DOMAIN e.expressions) \ {OrKey}}
      \cup (IF OrKey \in DOMAIN e.expressions
            THEN UNION {{<<k, Children(e)[i].expressions[k]>> : k \in DOMAIN Children(e)[i].expressions}
                           : i \in 1..Len(Children(e))}
            ELSE {})

\* the inverse of the leaf <<key, operand>>: the complement operator where the
\* table has one, the negated flag of exists, the not-wrap otherwise
InverseLeaf(leaf) ==
    LET k == leaf[1]
        v == leaf[2]
    IN  CASE Len(k) = 2 -> <<<<k[1], ":", "ne">>, v>>
          [] Len(k) = 3 /\ k[3] = "ne" -> <<<<k[1], ":">>, v>>
          [] Len(k) = 3 /\ k[3] \in TableOps -> <<<<k[1], ":", Complement(k[3])>>, v>>
          [] Len(k) = 3 /\ k[3] = "exists" -> <<k, BoolV(~v.b)>>
          [] Len(k) = 3 -> <<<<k[1], ":", "not", ":", k[3]>>, v>>
          [] OTHER -> <<<<k[1], ":", k[5]>>, v>>

\* C11: ~ applied to an AND or an OR of leaves succeeds and inverts every leaf
\* reachable in it, keeping every operand.
C11_CompositeInversionInvertsEveryLeaf ==
    (/\ Len(log) = 2 /\ log[1].op \in {"and", "or"} /\ log[2].op = "invert"
     /\ ~IsOrNode(log[1].arg))
        => /\ ~IsRaised(cur)
           /\ LeavesOf(cur) = {InverseLeaf(leaf) : leaf \in LeavesOf(prev)}

\* ------------------------------------------------------------------------
\* Update merges of different operators
\* ------------------------------------------------------------------------
\* C12 as stated: merging an incoming operator on field f into an update that
\* carries unset on f leaves only the incoming entry for f.
C12_IncomingDiscardsUnset ==
    (Len(log) = 1 /\ LastOp = "merge" /\ first = ULeaf("unset", <<"f">>, IntV(1))) =>
        \A k \in DOMAIN LastArg.expressions :
            k[3] = "f" => cur.expressions = LastArg.expressions

\* C12 amended: the unset entry for f is kept, unchanged, next to the incoming
\* entry for f; an incoming unset on f replaces the operand of the one entry.
C12_UnsetIsKeptBesideIncoming ==
    (Len(log) = 1 /\ LastOp = "merge" /\ first = ULeaf("unset", <<"f">>, IntV(1))) =>
        /\ ~IsRaised(cur)
        /\ DOMAIN cur.expressions = {UKey("unset", <<"f">>)} \cup DOMAIN LastArg.expressions
        /\ \A k \in DOMAIN LastArg.expressions : cur.expressions[k] = LastArg.expressions[k]
        /\ UKey("unset", <<"f">>) \notin DOMAIN LastArg.expressions
               => cur.expressions[UKey("unset", <<"f">>)] = IntV(1)

C12_Witness ==
    /\ first = ULeaf("unset", <<"f">>, IntV(1))
    /\ Len(log) = 1 /\ LastOp = "merge"
    /\ UKey("set", <<"f">>) \in DOMAIN LastArg.expressions
    /\ DOMAIN cur.expressions = {UKey("unset", <<"f">>), UKey("set", <<"f">>)}
    /\ doc # NoDoc
    /\ DOMAIN doc.items = {Dollar("unset"), Dollar("set")}

\* the update expression a chain of merges of pairwise different keys builds
RECURSIVE UnionOfArgs(_, _)
UnionOfArgs(d, lg) ==
    IF lg = <<>> THEN d
    ELSE UnionOfArgs([k \in (DOMAIN d) \cup DOMAIN lg[1].arg.expressions |->
                         IF k \in DOMAIN d THEN d[k] ELSE lg[1].arg.expressions[k]], Tail(lg))

DisjointKeys ==
    /\ \A i \in 1..Len(log) : (DOMAIN log[i].arg.expressions) \cap DOMAIN first.expressions = {}
    /\ \A i, j \in 1..Len(log) :
           i # j => (DOMAIN log[i].arg.expressions) \cap DOMAIN log[j].arg.expressions = {}

\* C13: merging updates with different (operator, field) pairs keeps every
\* entry with its operand, over any chain, and the result compiles to one
\* $-key per operator that maps each field to its operand.
C13_DifferentOperatorsAreAllKept ==
    (log # <<>> /\ LastOp = "merge" /\ DisjointKeys) =>
        /\ ~IsRaised(cur)
        /\ cur.expressions = UnionOfArgs(first.expressions, log)
        /\ doc # NoDoc =>
               /\ DOMAIN doc.items = {<<"$", k[1]>> : k \in DOMAIN cur.expressions}
               /\ \A top \in DOMAIN doc.items :
                      DOMAIN doc.items[top].items
                          = {<<k[3]>> : k \in {x \in DOMAIN cur.expressions : x[1] = top[2]}}
               /\ \A k \in DOMAIN cur.expressions :
                      doc.items[<<"$", k[1]>>].items[<<k[3]>>] = cur.expressions[k]

C13_Witness ==
    /\ Len(log) = 2 /\ LastOp = "merge" /\ DisjointKeys
    /\ DOMAIN cur.expressions = {UKey("set", <<"f">>), UKey("set", <<"g">>), UKey("push", <<"f">>)}
    /\ doc # NoDoc
    /\ DOMAIN doc.items = {Dollar("set"), Dollar("push")}
    /\ DOMAIN doc.items[Dollar("set")].items = {<<"f">>, <<"g">>}

\* C14: when both operands carry the same operator on the same field and the
\* operator is not inc, pushAll or pullAll, the one entry holds the incoming
\* operand.
C14_SameOperatorLastWriterWins ==
    (log # <<>> /\ LastOp = "merge") =>
        \A k \in (DOMAIN prev.expressions) \cap DOMAIN LastArg.expressions :
            k[1] \notin {"inc", "pushAll", "pullAll"}
                => /\ ~IsRaised(cur)
                   /\ DOMAIN cur.expressions = (DOMAIN prev.expressions) \cup DOMAIN LastArg.expressions
                   /\ cur.expressions[k] = LastArg.expressions[k]
                   /\ doc # NoDoc => doc.items[<<"$", k[1]>>].items[<<k[3]>>] = LastArg.expressions[k]

C14_Witness ==
    LET k == UKey("set", <<"f">>) IN
    /\ first = ULeaf("set", <<"f">>, IntV(0))
    /\ Len(log) = 1 /\ LastOp = "merge"
    /\ k \in DOMAIN LastArg.expressions /\ LastArg.expressions[k] # IntV(0)
    /\ cur.expressions = LastArg.expressions
    /\ doc = Doc1(Dollar("set"), Doc1(<<"f">>, LastArg.expressions[k]))


\* ========================================================================
\* Documents and fields of conjure (conjure/fields.py, conjure/documents.py)
\*
\* A document is its class name and its _data dict; a field name is a
\* one-atom string and a dotted path is a string whose "." are atoms of their
\* own.  Python mutates lists and documents in place; the operators return
\* the mutated container, and a container created inside a callee that no
\* caller holds is dropped the way the code drops it.
\* ========================================================================
NoneV == NoDoc
DateV(sec, frac)  == [kind |-> "datetime", n |-> sec, b |-> frac, l |-> <<>>, s |-> <<>>, specs |-> <<>>, items |-> EmptyDict]
DocV(cls, data)   == [kind |-> "doc", n |-> 0, b |-> FALSE, l |-> <<>>, s |-> <<cls>>, specs |-> <<>>, items |-> data]

\* truth value of the values documents hold
IsTrue(v) == IF v.kind = "datetime" THEN TRUE ELSE Truthy(v)

\* decimal digits of the list positions the model reaches
Digits == <<"0", "1", "2", "3", "4", "5", "6", "7", "8", "9">>
\* str(i)
Str(i) == <<Digits[i + 1]>>
\* int(s): the number a digit string denotes, -1 where int raises ValueError
IntOf(str) == IF Len(str) = 1 /\ \E i \in 1..Len(Digits) : Digits[i] = str[1]
              THEN (CHOOSE i \in 1..Len(Digits) : Digits[i] = str[1]) - 1
              ELSE -1
\* the int key i of a dict, distinct from the key str(i)
IntKey(i) == <<"int">> \o Str(i)

\* int(time.mktime(value.timetuple())): whole seconds, the fraction is lost
Timestamp(value) == IntV(value.n)
\* datetime.datetime.fromtimestamp(j)
FromTimestamp(j) == DateV(j.n, FALSE)

\* k.split('.', 1)
Split1(k) == LET p == Partition(k, ".") IN IF p[2] = <<>> THEN <<p[1]>> ELSE <<p[1], p[3]>>

\* ---- the schema: document classes and their fields ----------------------
Fld(type, elem, document) == [type |-> type, elem |-> elem, document |-> document]
\* the field of the elements of a ListField
ElemField(fd) == Fld(fd.elem, "", fd.document)

FieldNames(cls) ==
    CASE cls = "User"     -> {<<"id">>, <<"name">>, <<"born">>, <<"prefs">>, <<"foods">>, <<"contacts">>, <<"history">>, <<"ref">>}
      [] cls = "Contacts" -> {<<"emergency">>, <<"age">>, <<"settings">>, <<"lines">>}
      [] cls = "Item"     -> {<<"note">>, <<"tags">>}
      [] cls = "RefItem"  -> {<<"id">>, <<"val">>}
      [] OTHER            -> {}

\* cls._fields[name], for a name of FieldNames(cls)
FieldOf(cls, name) ==
    CASE name = <<"born">>     -> Fld("DateTime", "", "")
      [] name \in {<<"prefs">>, <<"settings">>} -> Fld("Dict", "", "")
      [] name = <<"age">>      -> Fld("Integer", "", "")
      [] name \in {<<"foods">>, <<"lines">>, <<"tags">>} -> Fld("List", "String", "")
      [] name = <<"contacts">> -> Fld("Embedded", "", "Contacts")
      [] name = <<"history">>  -> Fld("List", "Embedded", "Item")
      [] name = <<"ref">>      -> Fld("Reference", "", "RefItem")
      [] OTHER                 -> Fld("String", "", "")

\* field.get_default(): a ListField defaults to list, every other field to None
GetDefault(fd) == IF fd.type = "List" THEN ListV(<<>>) ELSE NoneV

\* cls(): every field set to its default
NewDoc(cls) == DocV(cls, [name \in FieldNames(cls) |-> GetDefault(FieldOf(cls, name))])

\* result of a statement that returns a value or raises
Res(val, exc) == [val |-> val, exc |-> exc]

\* getattr(cur_val, field): the value a document holds for the name, the
\* default of the field when it holds none; a list has no named attribute
GetAttr(cur_val, field) ==
    IF cur_val.kind # "doc" THEN Res(NoneV, "AttributeError")
    ELSE IF field \in DOMAIN cur_val.items /\ cur_val.items[field] # NoneV THEN Res(cur_val.items[field], "")
    ELSE IF field \in FieldNames(cur_val.s[1]) THEN Res(GetDefault(FieldOf(cur_val.s[1], field)), "")
    ELSE Res(NoneV, "")

\* setattr(cur_val, field, value)
SetAttr(cur_val, field, value) == DocV(cur_val.s[1], DictSet(cur_val.items, field, value))

\* str(value)
ToStr(value) == IF value.kind = "int" THEN StrV(Str(value.n)) ELSE value

\* ---- the saved documents a ReferenceField can name ----------------------
RefItem(id, val) == DocV("RefItem", [name \in FieldNames("RefItem") |->
                                        IF name = <<"id">> THEN StrV(<<id>>) ELSE StrV(<<val>>)])
Stored == {RefItem("1", "p"), RefItem("2", "q")}

\* ---- to_json ------------------------------------------------------------
RECURSIVE FieldToJson(_, _), DocToJson(_)
\* field.to_json(value)
FieldToJson(fd, value) ==
    CASE fd.type = "String"   -> IF value # NoneV THEN ToStr(value) ELSE NoneV
      [] fd.type = "DateTime" -> IF value.kind = "datetime" THEN Timestamp(value) ELSE NoneV
      [] fd.type = "Dict"     ->
             IF ~IsTrue(value) THEN GetDefault(fd)
             ELSE DictV([k \in DOMAIN value.items |->
                            IF value.items[k].kind = "datetime" THEN Timestamp(value.items[k])
                            ELSE value.items[k]])
      [] fd.type = "List"     ->
             IF value.kind = "list"
             THEN ListV([i \in 1..Len(value.l) |-> FieldToJson(ElemField(fd), value.l[i])])
             ELSE RaiseV("TypeError")
      [] fd.type \in {"Embedded", "Reference"} ->
             IF value.kind = "doc" /\ value.s = <<fd.document>> THEN DocToJson(value) ELSE NoneV
      [] OTHER -> value

\* document.to_json(): the external form of every field that has one
DocToJson(value) ==
    LET cls == value.s[1]
        js  == [name \in FieldNames(cls) |-> FieldToJson(FieldOf(cls, name), GetAttr(value, name).val)]
    IN  DictV([name \in {x \in FieldNames(cls) : js[x] # NoneV} |-> js[name]])

\* ---- from_json ----------------------------------------------------------
\* a (new value, deltas) pair
Pair(val, deltas) == [val |-> val, deltas |-> deltas]
OldNew(old, new)  == DictV([k \in {<<"old">>, <<"new">>} |-> IF k = <<"old">> THEN old ELSE new])
EmptyDelta        == DictV(EmptyDict)

\* BaseField.from_json: the incoming value, and the change it makes
BaseFromJson(j, cur_val) == Pair(j, IF j = cur_val THEN EmptyDelta ELSE OldNew(cur_val, j))

\* from_json that takes every incoming value for None
DateTimeFromJsonNone(j, cur_val) ==
    LET dt              == NoneV
        dt_compare      == IF IsTrue(dt) THEN Timestamp(dt) ELSE NoneV
        cur_val_compare == IF IsTrue(cur_val) THEN Timestamp(cur_val) ELSE NoneV
    IN  Pair(dt, IF dt_compare # cur_val_compare THEN OldNew(cur_val_compare, dt_compare) ELSE EmptyDelta)

\* DateTimeField.from_json
DateTimeFromJson(j, cur_val) ==
    LET dt              == IF j = NoneV THEN NoneV ELSE FromTimestamp(j)
        dt_compare      == IF IsTrue(dt) THEN Timestamp(dt) ELSE NoneV
        cur_val_compare == IF IsTrue(cur_val) THEN Timestamp(cur_val) ELSE NoneV
    IN  Pair(dt, IF dt_compare # cur_val_compare THEN OldNew(cur_val_compare, dt_compare) ELSE EmptyDelta)

\* ReferenceField.from_json: objects.filter_by(id=id_val).one()
ReferenceFromJson(j, cur_val) ==
    LET id_val == IF j.kind = "dict" THEN j.items[<<"id">>] ELSE j
    IN  Pair(CHOOSE q \in Stored : q.items[<<"id">>] = id_val, EmptyDelta)

\* the value from_json mutates is the object the document already holds
HeldObject(fd, cur_val, field) ==
    /\ field \in DOMAIN cur_val.items
    /\ \/ fd.type = "List" /\ cur_val.items[field].kind = "list"
       \/ fd.type = "Embedded" /\ cur_val.items[field].kind = "doc" /\ IsTrue(cur_val.items[field])

RECURSIVE FieldFromJson(_, _, _, _), EmbeddedFromJson(_, _, _, _), ListFromJson(_, _, _, _)
\* field.from_json(j, cur_val, update)
FieldFromJson(fd, j, cur_val, update) ==
    CASE fd.type = "DateTime"  -> DateTimeFromJson(j, cur_val)
      [] fd.type = "List"      -> ListFromJson(fd, j, cur_val, update)
      [] fd.type = "Embedded"  -> EmbeddedFromJson(fd.document, j, cur_val, update)
      [] fd.type = "Reference" -> ReferenceFromJson(j, cur_val)
      [] OTHER                 -> BaseFromJson(j, cur_val)

\* from_json that does not consult update: a missing key always deletes
EmbeddedFromJsonAlwaysDelete(document, j, cur_val0, update) ==
    LET cur_val  == IF ~IsTrue(cur_val0) THEN NewDoc(document) ELSE cur_val0
        names    == FieldNames(document)
        present  == {f \in names : f \in DOMAIN j.items}
        r        == [f \in present |->
                        FieldFromJson(FieldOf(document, f), j.items[f], GetAttr(cur_val, f).val, update)]
        changed  == {f \in present :
                        \/ f \notin DOMAIN cur_val.items
                        \/ /\ ~HeldObject(FieldOf(document, f), cur_val, f)
                           /\ r[f].val # cur_val.items[f]}
        deleted  == IF FALSE THEN {}
                    ELSE {f \in names \ present : f \in DOMAIN cur_val.items}
        unknown  == (DOMAIN j.items) \ names
        data     == [f \in ((DOMAIN cur_val.items) \cup changed) \ deleted |->
                        IF f \in changed \/ (f \in present /\ HeldObject(FieldOf(document, f), cur_val, f))
                        THEN r[f].val ELSE cur_val.items[f]]
        deltas   == [f \in changed \cup deleted \cup unknown |->
                        IF f \in changed THEN r[f].deltas
                        ELSE IF f \in deleted THEN StrV(<<"deleted">>)
                        ELSE StrV(<<"unknown">>)]
    IN  Pair(DocV(document, data), DictV(deltas))

\* EmbeddedDocumentField.from_json; every turn of the loop over the fields
\* reads and writes the entry of its own field only, so the turns are
\* written as one function over the field names
EmbeddedFromJson(document, j, cur_val0, update) ==
    LET cur_val  == IF ~IsTrue(cur_val0) THEN NewDoc(document) ELSE cur_val0
        names    == FieldNames(document)
        present  == {f \in names : f \in DOMAIN j.items}
        r        == [f \in present |->
                        FieldFromJson(FieldOf(document, f), j.items[f], GetAttr(cur_val, f).val, update)]
        changed  == {f \in present :
                        \/ f \notin DOMAIN cur_val.items
                        \/ /\ ~HeldObject(FieldOf(document, f), cur_val, f)
                           /\ r[f].val # cur_val.items[f]}
        deleted  == IF update THEN {}
                    ELSE {f \in names \ present : f \in DOMAIN cur_val.items}
        unknown  == (DOMAIN j.items) \ names
        data     == [f \in ((DOMAIN cur_val.items) \cup changed) \ deleted |->
                        IF f \in changed \/ (f \in present /\ HeldObject(FieldOf(document, f), cur_val, f))
                        THEN r[f].val ELSE cur_val.items[f]]
        deltas   == [f \in changed \cup deleted \cup unknown |->
                        IF f \in changed THEN r[f].deltas
                        ELSE IF f \in deleted THEN StrV(<<"deleted">>)
                        ELSE StrV(<<"unknown">>)]
    IN  Pair(DocV(document, data), DictV(deltas))

\* ListField.from_json: trim or pad cur_val to the length of j, then take
\* every element from j
ListFromJson(fd, j, cur_val, update) ==
    LET n      == Len(j.l)
        padded == [i \in 1..n |-> IF i <= Len(cur_val.l) THEN cur_val.l[i] ELSE NoneV]
        r      == [i \in 1..n |-> FieldFromJson(ElemField(fd), j.l[i], padded[i], update)]
    IN  Pair(ListV([i \in 1..n |-> r[i].val]),
             DictV([k \in {IntKey(i - 1) : i \in 1..n} |->
                       r[(CHOOSE i \in 1..n : IntKey(i - 1) = k)].deltas]))

\* ---- deltas -------------------------------------------------------------
\* BaseField.deltas
BaseDeltas(cur_v, base_v) == IF cur_v = base_v THEN EmptyDelta ELSE OldNew(base_v, cur_v)

\* DateTimeField.deltas
DateTimeDeltas(cur_v, base_v) ==
    LET dt_compare      == IF IsTrue(base_v) THEN Timestamp(base_v) ELSE NoneV
        cur_val_compare == IF IsTrue(cur_v) THEN Timestamp(cur_v) ELSE NoneV
    IN  IF dt_compare # cur_val_compare THEN OldNew(cur_val_compare, dt_compare) ELSE EmptyDelta

\* ReferenceField.deltas
ReferenceDeltas(cur_v, base_v) ==
    LET old == IF IsTrue(base_v) THEN DocToJson(base_v) ELSE base_v
        new == IF IsTrue(cur_v) THEN DocToJson(cur_v) ELSE cur_v
    IN  IF old = new THEN EmptyDelta ELSE OldNew(old, new)

\* _convert_json of ListField.deltas: x.to_json(), x itself where that raises
ConvertJson(x) == IF x.kind = "doc" THEN DocToJson(x) ELSE x

InList(x, xs) == \E i \in 1..Len(xs) : xs[i] = x

\* added and removed with the two lists exchanged
ListDiffSwapped(cur_list, base_list) ==
    [added   |-> SelectSeq(base_list, LAMBDA x : ~InList(x, cur_list)),
     removed |-> SelectSeq(cur_list, LAMBDA x : ~InList(x, base_list))]

\* the added and removed lists of ListField.deltas
ListDiff(cur_list, base_list) ==
    [added   |-> SelectSeq(cur_list, LAMBDA x : ~InList(x, base_list)),
     removed |-> SelectSeq(base_list, LAMBDA x : ~InList(x, cur_list))]

RECURSIVE FieldDeltas(_, _, _), EmbeddedDeltas(_, _, _), ListDeltas(_, _, _)
\* field.deltas(cur_v, base_v)
FieldDeltas(fd, cur_v, base_v) ==
    CASE fd.type = "DateTime"  -> DateTimeDeltas(cur_v, base_v)
      [] fd.type = "List"      -> ListDeltas(fd, cur_v, base_v)
      [] fd.type = "Embedded"  -> EmbeddedDeltas(fd.document, cur_v, base_v)
      [] fd.type = "Reference" -> ReferenceDeltas(cur_v, base_v)
      [] OTHER                 -> BaseDeltas(cur_v, base_v)

\* index entries for the positions both lists have, and no others
ListDeltasCommon(fd, cur0, base0) ==
    LET cur_v   == IF ~IsTrue(cur0) THEN <<>> ELSE cur0.l
        base_v  == IF ~IsTrue(base0) THEN <<>> ELSE base0.l
        diff  == ListDiff([i \in 1..Len(cur_v) |-> ConvertJson(cur_v[i])],
                          [i \in 1..Len(base_v) |-> ConvertJson(base_v[i])])
        top   == IF diff.added = <<>> /\ diff.removed = <<>> THEN {} ELSE {<<"added">>, <<"removed">>}
        n     == IF Len(cur_v) < Len(base_v) THEN Len(cur_v) ELSE Len(base_v)
        delta == [i \in 1..n |-> FieldDeltas(ElemField(fd),
                                             IF i <= Len(cur_v) THEN cur_v[i] ELSE NoneV,
                                             IF i <= Len(base_v) THEN base_v[i] ELSE NoneV)]
        idx   == {i \in 1..n : IsTrue(delta[i])}
    IN  DictV([k \in top \cup {Str(i - 1) : i \in idx} |->
                  IF k = <<"added">> THEN ListV(diff.added)
                  ELSE IF k = <<"removed">> THEN ListV(diff.removed)
                  ELSE delta[(CHOOSE i \in idx : Str(i - 1) = k)]])

\* ListField.deltas
ListDeltas(fd, cur0, base0) ==
    LET cur_v   == IF ~IsTrue(cur0) THEN <<>> ELSE cur0.l
        base_v  == IF ~IsTrue(base0) THEN <<>> ELSE base0.l
        diff  == ListDiff([i \in 1..Len(cur_v) |-> ConvertJson(cur_v[i])],
                          [i \in 1..Len(base_v) |-> ConvertJson(base_v[i])])
        top   == IF diff.added = <<>> /\ diff.removed = <<>> THEN {} ELSE {<<"added">>, <<"removed">>}
        n     == IF Len(cur_v) > Len(base_v) THEN Len(cur_v) ELSE Len(base_v)
        delta == [i \in 1..n |-> FieldDeltas(ElemField(fd),
                                             IF i <= Len(cur_v) THEN cur_v[i] ELSE NoneV,
                                             IF i <= Len(base_v) THEN base_v[i] ELSE NoneV)]
        idx   == {i \in 1..n : IsTrue(delta[i])}
    IN  DictV([k \in top \cup {Str(i - 1) : i \in idx} |->
                  IF k = <<"added">> THEN ListV(diff.added)
                  ELSE IF k = <<"removed">> THEN ListV(diff.removed)
                  ELSE delta[(CHOOSE i \in idx : Str(i - 1) = k)]])

\* EmbeddedDocumentField.deltas
EmbeddedDeltas(document, cur0, base_v) ==
    LET cur_v == IF ~IsTrue(cur0) THEN NoneV ELSE cur0 IN
    IF ~IsTrue(cur_v) THEN EmptyDelta
    ELSE LET d == [f \in FieldNames(document) |->
                      FieldDeltas(FieldOf(document, f), GetAttr(cur_v, f).val,
                                  IF IsTrue(base_v) THEN GetAttr(base_v, f).val ELSE NoneV)]
         IN  DictV([f \in {x \in FieldNames(document) : IsTrue(d[x])} |-> d[f]])

\* ---- set_field ----------------------------------------------------------
\* IntegerField.from_val: int(v), a ValueError for a string that is no number
IntegerFromVal(v) ==
    IF v.kind = "int" THEN Res(v, "")
    ELSE IF v.kind = "str" /\ IntOf(v.s) >= 0 THEN Res(IntV(IntOf(v.s)), "")
    ELSE Res(NoneV, IF v.kind = "str" THEN "ValueError" ELSE "TypeError")

\* BaseField.from_val
BaseFromVal(v) == Res(v, "")

\* cur_val._fields[field].from_val(v)
FromVal(fd, v) == IF fd.type = "Integer" THEN IntegerFromVal(v) ELSE BaseFromVal(v)

\* setattr(cur_val, field, cur_val._fields[field].from_val(v))
AssignFromVal(cur_val, field, fd, v) ==
    LET c == FromVal(fd, v)
    IN  IF c.exc # "" THEN Res(cur_val, c.exc) ELSE Res(SetAttr(cur_val, field, c.val), "")

\* field.new_instance(): a document for an EmbeddedDocumentField, a dict for
\* a DictField; the other fields of fields.py define none
HasNewInstance(fd) == fd.type \in {"Embedded", "Dict"}
\* a new_instance that makes nothing
NewInstanceNone(fd) == NoneV
NewInstance(fd) == IF fd.type = "Embedded" THEN NewDoc(fd.document) ELSE DictV(EmptyDict)

\* xs[index] = v on a Python list, index counted from 0
ListSetItem(xs, index, v) == [i \in 1..Len(xs) |-> IF i = index + 1 THEN v ELSE xs[i]]

\* the container a callee hands back: the one it was given, mutated, unless
\* it was given none and made its own
Returned(cur_val0, r) == IF ~IsTrue(cur_val0) THEN Res(cur_val0, r.exc) ELSE r

RECURSIVE FieldSetField(_, _, _, _), ListSetField(_, _, _), EmbeddedSetField(_, _, _, _)
\* cur_val._fields[field].set_field(k, v, cur_val)
FieldSetField(fd, k, v, cur_val) ==
    CASE fd.type = "List"     -> ListSetField(k, v, cur_val)
      [] fd.type = "Embedded" -> EmbeddedSetField(fd.document, k, v, cur_val)
      [] OTHER                -> Res(cur_val, "AttributeError")

\* ListField.set_field
ListSetField(k, v, cur_val) ==
    IF ~IsTrue(cur_val) THEN Res(cur_val, "AttributeError")
    ELSE
    LET ks    == Split1(k)
        field == ks[1]
        got   == GetAttr(cur_val, field)
        known == field \in FieldNames(cur_val.s[1])
        fd    == FieldOf(cur_val.s[1], field)
    IN  IF got.exc # "" THEN Res(cur_val, got.exc)
        ELSE IF got.val.kind = "list" THEN
            IF Len(ks) < 2 THEN Res(cur_val, "IndexError")
            ELSE LET spl   == Split1(ks[2])
                     index == IntOf(spl[1])
                 IN  IF index < 0 THEN Res(cur_val, "ValueError")
                     ELSE IF index >= Len(got.val.l) THEN Res(cur_val, "IndexError")
                     ELSE IF Len(spl) = 2 THEN
                         LET r == FieldSetField(fd, spl[2], v, got.val.l[index + 1])
                         IN  Res(SetAttr(cur_val, field, ListV(ListSetItem(got.val.l, index, r.val))), r.exc)
                     ELSE Res(SetAttr(cur_val, field, ListV(ListSetItem(got.val.l, index, v))), "")
        ELSE IF Len(ks) = 2 THEN
            IF got.val = NoneV /\ ~known THEN Res(cur_val, "KeyError")
            ELSE IF got.val = NoneV /\ fd.type # "Embedded" THEN Res(cur_val, "AttributeError")
            ELSE IF ~known THEN Res(cur_val, "KeyError")
            ELSE LET made == IF got.val = NoneV THEN SetAttr(cur_val, field, NewDoc(fd.document)) ELSE cur_val
                     r    == FieldSetField(fd, ks[2], v, GetAttr(made, field).val)
                 IN  Res(SetAttr(made, field, r.val), r.exc)
        ELSE IF ~known THEN Res(cur_val, "KeyError")
        ELSE AssignFromVal(cur_val, field, fd, v)

\* EmbeddedDocumentField.set_field
EmbeddedSetField(document, k, v, cur_val0) ==
    LET cur_val == IF ~IsTrue(cur_val0) THEN NewDoc(document) ELSE cur_val0
        ks      == Split1(k)
        field   == ks[1]
        got     == GetAttr(cur_val, field)
        known   == field \in FieldNames(cur_val.s[1])
        fd      == FieldOf(cur_val.s[1], field)
    IN  Returned(cur_val0,
        IF Len(ks) = 2 THEN
            IF got.exc # "" THEN Res(cur_val, got.exc)
            ELSE IF got.val = NoneV /\ ~known THEN Res(cur_val, "KeyError")
            ELSE IF got.val = NoneV /\ ~HasNewInstance(fd) THEN Res(cur_val, "AttributeError")
            ELSE LET made == IF got.val = NoneV THEN SetAttr(cur_val, field, NewInstance(fd)) ELSE cur_val
                     held == GetAttr(made, field).val
                 IN  IF held.kind = "dict"
                     THEN Res(SetAttr(made, field, DictV(DictSet(held.items, ks[2], v))), "")
                     ELSE IF ~known THEN Res(made, "KeyError")
                     ELSE LET r == FieldSetField(fd, ks[2], v, held)
                          IN  Res(SetAttr(made, field, r.val), r.exc)
        ELSE IF ~known THEN Res(cur_val, "KeyError")
        ELSE AssignFromVal(cur_val, field, fd, v))

\* ---- a tracked document and the calls made on it ------------------------
Call(op, k, v, j, update) == [op |-> op, k |-> k, v |-> v, j |-> j, update |-> update]
NoCall == Call("", <<>>, NoneV, NoneV, FALSE)

\* a dotted path from its segments
Path(segs) == Join([i \in 1..Len(segs) |-> <<segs[i]>>], ".")

Item(note, tags) == DocV("Item", [name \in FieldNames("Item") |->
                                     IF name = <<"note">> THEN StrV(<<note>>)
                                     ELSE ListV([i \in 1..Len(tags) |-> StrV(<<tags[i]>>)])])

\* the documents the model starts from: one with every field set, one empty
FullUser ==
    DocV("User", [name \in FieldNames("User") |->
        CASE name = <<"id">>       -> NoneV
          [] name = <<"name">>     -> StrV(<<"a">>)
          [] name = <<"born">>     -> DateV(1, TRUE)
          [] name = <<"prefs">>    -> DictV([k \in {<<"k">>} |-> StrV(<<"v">>)])
          [] name = <<"foods">>    -> ListV(<<StrV(<<"a">>), StrV(<<"b">>)>>)
          [] name = <<"contacts">> -> DocV("Contacts", [f \in FieldNames("Contacts") |->
                                          CASE f = <<"emergency">> -> StrV(<<"e">>)
                                            [] f = <<"age">>       -> IntV(3)
                                            [] f = <<"settings">>  -> DictV([k \in {<<"s">>} |-> StrV(<<"v">>)])
                                            [] OTHER               -> ListV(<<StrV(<<"l">>)>>)])
          [] name = <<"history">>  -> ListV(<<Item("n", <<"x", "y">>)>>)
          [] OTHER                 -> RefItem("1", "p")])
EmptyUser == NewDoc("User")
Users == {FullUser, EmptyUser}

\* the paths and the value set_field is called with
Paths == {Path(p) : p \in {<<"name">>, <<"nope">>, <<"nope", "x">>,
                           <<"foods", "0">>, <<"foods", "1">>, <<"foods", "2">>,
                           <<"contacts", "emergency">>, <<"contacts", "nope">>, <<"contacts", "nope", "x">>,
                           <<"contacts", "lines", "0">>, <<"prefs", "k2">>,
                           <<"history", "0", "note">>, <<"history", "0", "nope">>,
                           <<"history", "0", "tags", "1">>, <<"history", "0", "tags", "3">>,
                           <<"history", "1", "note">>}}
NewValue == StrV(<<"z">>)
\* a number written as a string, for the fields that convert what they are given
Numeral == StrV(<<"7">>)
NumberPaths == {Path(p) : p \in {<<"contacts", "age">>, <<"contacts", "settings", "s2">>}}
\* the (path, value) pairs set_field is called with
SetFieldInputs == (Paths \X {NewValue}) \cup (NumberPaths \X {Numeral}) \cup {<<Path(<<"contacts", "age">>), NewValue>>}

\* the documents from_json is called with: the external form of the
\* document itself, and that form with a key removed, a nested key removed,
\* a list shortened or extended, a value changed, an unknown key added
Without(j, key) == DictV(DictDel(j.items, key))
With(j, key, v) == DictV(DictSet(j.items, key, v))
Incoming(doc_v) ==
    LET own == DocToJson(doc_v) IN
    {own, With(own, <<"extra">>, NewValue), With(own, <<"name">>, NewValue),
     With(own, <<"foods">>, ListV(<<StrV(<<"a">>)>>)),
     With(own, <<"foods">>, ListV(<<StrV(<<"a">>), StrV(<<"b">>), StrV(<<"c">>)>>))}
      \cup {Without(own, key) : key \in DOMAIN own.items}
      \cup (IF <<"contacts">> \in DOMAIN own.items
            THEN {With(own, <<"contacts">>, Without(own.items[<<"contacts">>], <<"emergency">>))}
            ELSE {})

\* what the caller's own code does to the fields between two calls
Mutations == {"append", "remove", "clock", "refer", "log"}
Mutate(doc_v, m) ==
    LET foods == GetAttr(doc_v, <<"foods">>).val.l
        hist  == GetAttr(doc_v, <<"history">>).val.l
    IN  CASE m = "append" -> SetAttr(doc_v, <<"foods">>, ListV(Append(foods, StrV(<<"c">>))))
          [] m = "remove" -> SetAttr(doc_v, <<"foods">>, ListV(IF foods = <<>> THEN foods ELSE Tail(foods)))
          [] m = "clock"  -> SetAttr(doc_v, <<"born">>, DateV(2, FALSE))
          [] m = "refer"  -> SetAttr(doc_v, <<"ref">>, RefItem("2", "q"))
          [] OTHER        -> SetAttr(doc_v, <<"history">>, ListV(Append(hist, Item("m", <<>>))))

\* Document.__init__ with track_changes: _base is a deep copy of the document
RInit ==
    /\ record \in Users
    /\ snapshot = record
    /\ ret = NoneV
    /\ call = NoCall
    /\ before = NoneV
    /\ calls = 0
    /\ stored = NoneV
    /\ SIdle /\ HIdle /\ EIdle /\ CIdle

Called(c, result, returned) ==
    /\ calls < MaxCalls
    /\ calls' = calls + 1
    /\ before' = record
    /\ record' = result
    /\ ret' = returned
    /\ call' = c
    /\ UNCHANGED <<snapshot, stored, vars, HVars, EVars, CVars>>

\* ListField.set_field(k, v, record)
DoListSetField ==
    \E kv \in SetFieldInputs :
        LET k == kv[1]
            v == kv[2]
            r == ListSetField(k, v, record)
        IN  Called(Call("list.set_field", k, v, NoneV, FALSE), r.val,
                   IF r.exc = "" THEN NoneV ELSE RaiseV(r.exc))

\* EmbeddedDocumentField(User).set_field(k, v, record)
DoEmbeddedSetField ==
    \E kv \in SetFieldInputs :
        LET k == kv[1]
            v == kv[2]
            r == EmbeddedSetField("User", k, v, record)
        IN  Called(Call("embedded.set_field", k, v, NoneV, FALSE), r.val,
                   IF r.exc = "" THEN NoneV ELSE RaiseV(r.exc))

\* EmbeddedDocumentField(User).from_json(j, record, update)
DoFromJson ==
    \E j \in Incoming(record), update \in BOOLEAN :
        LET r == EmbeddedFromJson("User", j, record, update)
        IN  Called(Call("from_json", <<>>, NoneV, j, update), r.val, r.deltas)

\* the caller assigns to a field or appends to a list of the document
DoMutate ==
    \E m \in Mutations : Called(Call("mutate", <<m>>, NoneV, NoneV, FALSE), Mutate(record, m), NoneV)

\* EmbeddedDocumentField(User).deltas(record, record._base)
DoDeltas ==
    /\ call.op # "deltas"
    /\ ret' = EmbeddedDeltas("User", record, snapshot)
    /\ call' = Call("deltas", <<>>, NoneV, NoneV, FALSE)
    /\ UNCHANGED <<record, snapshot, before, calls, stored, vars, HVars, EVars, CVars>>

\* the id the collection hands out for the document
ObjectId == StrV(<<"o">>)

\* self.to_mongo(): the values of the fields that hold one
ToMongo(doc_v) == DocV(doc_v.s[1], [f \in {g \in DOMAIN doc_v.items : doc_v.items[g] # NoneV} |-> doc_v.items[f]])

\* Document.save(): the document goes to the collection and takes the id the
\* collection returns; an OperationFailure of the collection is raised as
\* OperationError before the id is assigned
DoSave ==
    /\ calls < MaxCalls
    /\ calls' = calls + 1
    /\ before' = record
    /\ call' = Call("save", <<>>, NoneV, NoneV, FALSE)
    /\ \E failure \in BOOLEAN :
           IF failure
           THEN /\ ret' = RaiseV("OperationError")
                /\ UNCHANGED <<record, stored>>
           ELSE LET object_id == IF GetAttr(record, <<"id">>).val = NoneV THEN ObjectId ELSE GetAttr(record, <<"id">>).val
                IN  /\ record' = SetAttr(record, <<"id">>, object_id)
                    /\ stored' = SetAttr(ToMongo(record), <<"id">>, object_id)
                    /\ ret' = NoneV
    /\ UNCHANGED <<snapshot, vars, HVars, EVars, CVars>>

\* Document.reload(): every field the stored document has a value for is
\* read back into _data
DoReload ==
    /\ calls < MaxCalls
    /\ stored # NoneV /\ GetAttr(record, <<"id">>).val = GetAttr(stored, <<"id">>).val
    /\ calls' = calls + 1
    /\ before' = record
    /\ call' = Call("reload", <<>>, NoneV, NoneV, FALSE)
    /\ record' = DocV(record.s[1], [f \in DOMAIN record.items \cup DOMAIN stored.items |->
                                       IF f \in DOMAIN stored.items THEN stored.items[f] ELSE record.items[f]])
    /\ ret' = NoneV
    /\ UNCHANGED <<snapshot, stored, vars, HVars, EVars, CVars>>

RNext == DoListSetField \/ DoEmbeddedSetField \/ DoFromJson \/ DoMutate \/ DoDeltas \/ DoSave \/ DoReload

RecordSpec == RInit /\ [][RNext]_RVars


\* ------------------------------------------------------------------------
\* Properties of the delta engine
\* ------------------------------------------------------------------------
\* the external form of every element of a list value, [] for no list
Projected(v) == IF v.kind = "list" THEN [i \in 1..Len(v.l) |-> ConvertJson(v.l[i])] ELSE <<>>
\* the elements of xs, in order, that equal no element of ys
NotIn(xs, ys) == SelectSeq(xs, LAMBDA x : \A i \in 1..Len(ys) : ys[i] # x)
Held(doc_v, f) == GetAttr(doc_v, f).val
ListFields == {<<"foods">>, <<"history">>}

\* C15: the delta of a list field holds under added the elements of the
\* current list, in order, whose external form equals no element of the base
\* list, and under removed the elements of the base list whose form equals no
\* element of the current list; one element appended and one taken away give
\* exactly those two; a list equal to its base has no delta.
C15_ListDiffReportsAddedAndRemoved ==
    call.op = "deltas" =>
        \A f \in ListFields :
            LET c       == Projected(Held(record, f))
                b       == Projected(Held(snapshot, f))
                added   == NotIn(c, b)
                removed == NotIn(b, c)
            IN  /\ (added # <<>> \/ removed # <<>>) =>
                       /\ f \in DOMAIN ret.items
                       /\ ret.items[f].items[<<"added">>] = ListV(added)
                       /\ ret.items[f].items[<<"removed">>] = ListV(removed)
                /\ c = b => f \notin DOMAIN ret.items
                /\ (/\ b # <<>> /\ c # <<>> /\ Len(c) = Len(b)
                    /\ SubSeq(c, 1, Len(c) - 1) = Tail(b)
                    /\ \A i \in 1..Len(b) : b[i] # c[Len(c)]
                    /\ \A i \in 1..Len(c) : c[i] # b[1]) =>
                       /\ ret.items[f].items[<<"added">>] = ListV(<<c[Len(c)]>>)
                       /\ ret.items[f].items[<<"removed">>] = ListV(<<b[1]>>)

C15_Witness ==
    /\ call.op = "deltas"
    /\ Held(snapshot, <<"foods">>) = ListV(<<StrV(<<"a">>), StrV(<<"b">>)>>)
    /\ Held(record, <<"foods">>) = ListV(<<StrV(<<"b">>), StrV(<<"c">>)>>)
    /\ <<"foods">> \in DOMAIN ret.items
    /\ ret.items[<<"foods">>].items[<<"added">>] = ListV(<<StrV(<<"c">>)>>)
    /\ ret.items[<<"foods">>].items[<<"removed">>] = ListV(<<StrV(<<"a">>)>>)

\* the external form a delta shows for a value of the field
Shown(f, v) ==
    CASE f = <<"born">> -> IF v.kind = "datetime" THEN Timestamp(v) ELSE NoneV
      [] f = <<"ref">>  -> IF v.kind = "doc" THEN DocToJson(v) ELSE NoneV
      [] OTHER          -> v

\* C16: the delta of a scalar, date-time or reference field is empty when
\* the current value equals the base value and is otherwise {old: the base
\* value, new: the current value}.
C16_DeltaIsOldBaseNewCurrent ==
    call.op = "deltas" =>
        \A f \in {<<"name">>, <<"born">>, <<"ref">>} :
            LET c == Shown(f, Held(record, f))
                b == Shown(f, Held(snapshot, f))
            IN  IF c = b THEN f \notin DOMAIN ret.items
                ELSE f \in DOMAIN ret.items /\ ret.items[f] = OldNew(b, c)

\* ------------------------------------------------------------------------
\* Properties of from_json
\* ------------------------------------------------------------------------
\* C17: a field the document holds and the incoming document lacks is
\* removed and reported as "deleted" when update is false, and is left as it
\* was, with no delta entry, when update is true.
C17_MissingKeyDeletesUnlessUpdate ==
    call.op = "from_json" =>
        \A f \in FieldNames("User") :
            (f \in DOMAIN before.items /\ f \notin DOMAIN call.j.items) =>
                IF call.update
                THEN /\ f \in DOMAIN record.items
                     /\ record.items[f] = before.items[f]
                     /\ f \notin DOMAIN ret.items
                ELSE /\ f \notin DOMAIN record.items
                     /\ f \in DOMAIN ret.items
                     /\ ret.items[f] = StrV(<<"deleted">>)

C17_Witness ==
    /\ call.op = "from_json" /\ ~call.update
    /\ before = FullUser
    /\ <<"foods">> \notin DOMAIN call.j.items
    /\ <<"foods">> \notin DOMAIN record.items
    /\ ret.items[<<"foods">>] = StrV(<<"deleted">>)
    /\ record.items[<<"name">>] = FullUser.items[<<"name">>]

\* C18: taking in the document's own external form with update false leaves
\* the external form as it was.
C18_OwnExternalFormRoundTrips ==
    (call.op = "from_json" /\ ~call.update /\ call.j = DocToJson(before)) =>
        DocToJson(record) = call.j

C18_Witness ==
    /\ call.op = "from_json" /\ ~call.update
    /\ call.j = DocToJson(before)
    /\ {<<"born">>, <<"foods">>, <<"contacts">>, <<"history">>, <<"prefs">>, <<"ref">>} \subseteq DOMAIN call.j.items
    /\ call.j.items[<<"foods">>].l # <<>>
    /\ record # before
    /\ DocToJson(record) = call.j

\* ------------------------------------------------------------------------
\* Properties of set_field
\* ------------------------------------------------------------------------
IsSetField == call.op \in {"list.set_field", "embedded.set_field"}
Segments   == Split(call.k, ".")

RECURSIVE Walk(_, _)
\* the value a path of segments leads to, None where it leads nowhere
Walk(v, segs) ==
    IF segs = <<>> THEN v
    ELSE IF v.kind = "doc" THEN Walk(Held(v, Head(segs)), Tail(segs))
    ELSE IF v.kind = "list" /\ IntOf(Head(segs)) >= 0 /\ IntOf(Head(segs)) < Len(v.l)
         THEN Walk(v.l[IntOf(Head(segs)) + 1], Tail(segs))
    ELSE NoneV

RECURSIVE ListsOf(_)
\* the lengths of the lists of a document, by the path that leads to them
ListsOf(v) ==
    IF v.kind = "doc"
    THEN UNION {{<<<<f>> \o e[1], e[2]>> : e \in ListsOf(v.items[f])} : f \in DOMAIN v.items}
    ELSE IF v.kind = "list"
    THEN {<<<<>>, Len(v.l)>>} \cup UNION {{<<<<Str(i - 1)>> \o e[1], e[2]>> : e \in ListsOf(v.l[i])} : i \in 1..Len(v.l)}
    ELSE {}

\* C19: set_field with a list index as the last segment replaces element i
\* in place when 0 <= i < length, fails with IndexError and changes nothing
\* when i >= length, and never changes the length of a list.
C19_ListIndexReplacesInPlace ==
    (IsSetField /\ IntOf(Segments[Len(Segments)]) >= 0) =>
        LET i    == IntOf(Segments[Len(Segments)])
            path == SubSeq(Segments, 1, Len(Segments) - 1)
            xs   == Walk(before, path)
        IN  xs.kind = "list" =>
                /\ i < Len(xs.l) =>
                       /\ ret = NoneV
                       /\ Walk(record, path) = ListV(ListSetItem(xs.l, i, call.v))
                /\ i >= Len(xs.l) => ret = RaiseV("IndexError") /\ record = before
                /\ ListsOf(record) = ListsOf(before)

RECURSIVE NamesNoField(_, _)
\* a name segment of the path names no field of the document it is applied to
NamesNoField(v, segs) ==
    IF segs = <<>> THEN FALSE
    ELSE IF v.kind = "doc"
    THEN IF Head(segs) \notin FieldNames(v.s[1]) THEN TRUE
         ELSE LET fd   == FieldOf(v.s[1], Head(segs))
                  held == Held(v, Head(segs))
              IN  NamesNoField(IF held = NoneV /\ fd.type = "Embedded" THEN NewDoc(fd.document) ELSE held,
                               Tail(segs))
    ELSE IF v.kind = "list" /\ IntOf(Head(segs)) >= 0 /\ IntOf(Head(segs)) < Len(v.l)
    THEN NamesNoField(v.l[IntOf(Head(segs)) + 1], Tail(segs))
    ELSE FALSE

\* C20: set_field fails with KeyError whenever a name segment at any position
\* of the path names no field of the document it is applied to.
C20_UnknownNameIsKeyError ==
    (IsSetField /\ NamesNoField(before, Segments)) => ret = RaiseV("KeyError")

\* ------------------------------------------------------------------------
\* Properties of set_field on paths through absent documents
\* ------------------------------------------------------------------------
\* the document a set_field step works on: a new one where none is held
Present(fd, held) == IF held = NoneV /\ fd.type = "Embedded" THEN NewDoc(fd.document) ELSE held

RECURSIVE MeetsAbsent(_, _)
\* an intermediate segment of the path names an embedded document that is absent
MeetsAbsent(v, segs) ==
    IF Len(segs) < 2 THEN FALSE
    ELSE IF v.kind = "doc" /\ Head(segs) \in FieldNames(v.s[1])
    THEN LET fd == FieldOf(v.s[1], Head(segs))
             held == Held(v, Head(segs))
         IN  (fd.type = "Embedded" /\ held = NoneV) \/ MeetsAbsent(Present(fd, held), Tail(segs))
    ELSE IF v.kind = "list" /\ IntOf(Head(segs)) >= 0 /\ IntOf(Head(segs)) < Len(v.l)
    THEN MeetsAbsent(v.l[IntOf(Head(segs)) + 1], Tail(segs))
    ELSE FALSE

RECURSIVE Coerced(_, _, _)
\* the value the path is to hold: the literal conversion of the field the
\* last segment names, the value itself for a dictionary key or a list index
Coerced(v, segs, val) ==
    IF v.kind = "doc" /\ Head(segs) \in FieldNames(v.s[1])
    THEN LET fd == FieldOf(v.s[1], Head(segs))
         IN  IF Len(segs) = 1 THEN FromVal(fd, val)
             ELSE Coerced(Present(fd, Held(v, Head(segs))), Tail(segs), val)
    ELSE IF Len(segs) > 1 /\ v.kind = "list" /\ IntOf(Head(segs)) >= 0 /\ IntOf(Head(segs)) < Len(v.l)
    THEN Coerced(v.l[IntOf(Head(segs)) + 1], Tail(segs), val)
    ELSE Res(val, "")

RECURSIVE Read(_, _)
\* reading a path: attributes of documents, positions of lists, keys of dictionaries
Read(v, segs) ==
    IF segs = <<>> THEN v
    ELSE IF v.kind = "doc" THEN Read(Held(v, Head(segs)), Tail(segs))
    ELSE IF v.kind = "list" /\ IntOf(Head(segs)) >= 0 /\ IntOf(Head(segs)) < Len(v.l)
         THEN Read(v.l[IntOf(Head(segs)) + 1], Tail(segs))
    ELSE IF v.kind = "dict" /\ Head(segs) \in DOMAIN v.items THEN Read(v.items[Head(segs)], Tail(segs))
    ELSE NoneV

\* the call is a set_field through an absent embedded document, every name
\* of the path a field, the value one the last field can convert
ThroughAbsent ==
    /\ IsSetField
    /\ MeetsAbsent(before, Segments)
    /\ ~NamesNoField(before, Segments)
    /\ Coerced(before, Segments, call.v).exc = ""
NoIndexSegment == \A i \in 1..Len(Segments) : IntOf(Segments[i]) < 0
AssignedAtPath ==
    /\ ret = NoneV
    /\ Read(record, Segments) = Coerced(before, Segments, call.v).val
    /\ \A f \in FieldNames("User") \ {Segments[1]} : Held(record, f) = Held(before, f)

RECURSIVE IndexOutOfRange(_, _)
\* an index segment of the path lies beyond the end of the list it is applied to
IndexOutOfRange(v, segs) ==
    IF segs = <<>> THEN FALSE
    ELSE IF v.kind = "doc" /\ Head(segs) \in FieldNames(v.s[1])
    THEN IndexOutOfRange(Present(FieldOf(v.s[1], Head(segs)), Held(v, Head(segs))), Tail(segs))
    ELSE IF v.kind = "list" /\ IntOf(Head(segs)) >= 0
    THEN IF IntOf(Head(segs)) >= Len(v.l) THEN TRUE
         ELSE IndexOutOfRange(v.l[IntOf(Head(segs)) + 1], Tail(segs))
    ELSE FALSE

\* C30: a set_field call that fails, on an unknown field or an index out of
\* range at any segment, leaves the document exactly as it was before the
\* call: no intermediate document created on the way stays attached.
C30_FailedSetFieldChangesNothing ==
    (IsSetField /\ ret.kind = "raise"
       /\ (NamesNoField(before, Segments) \/ IndexOutOfRange(before, Segments))) => record = before

\* ------------------------------------------------------------------------
\* Properties of deltas on lists and embedded documents
\* ------------------------------------------------------------------------
\* the delta deltas() reports under a field, the empty delta where it reports none
EntryOf(f) == IF f \in DOMAIN ret.items THEN ret.items[f] ELSE EmptyDelta
\* element i of a list value, None beyond its end
ElemAt(v, i) == IF v.kind = "list" /\ i <= Len(v.l) THEN v.l[i] ELSE NoneV
LenOf(v) == IF v.kind = "list" THEN Len(v.l) ELSE 0
Longer(f)  == IF LenOf(Held(record, f)) > LenOf(Held(snapshot, f))
              THEN LenOf(Held(record, f)) ELSE LenOf(Held(snapshot, f))
Shorter(f) == IF LenOf(Held(record, f)) < LenOf(Held(snapshot, f))
              THEN LenOf(Held(record, f)) ELSE LenOf(Held(snapshot, f))
\* the element-level delta at position i of list field f
ElemDelta(f, i) == FieldDeltas(ElemField(FieldOf("User", f)), ElemAt(Held(record, f), i), ElemAt(Held(snapshot, f), i))

\* C25 as stated: the delta of a list field has an entry under an index only
\* for a position that exists in both the current and the base list, and
\* only when the element-level delta there is non-empty; positions beyond
\* the shorter list produce no entry.
C25_IndexEntriesOnlyForCommonPositions ==
    call.op = "deltas" =>
        \A f \in ListFields : \A i \in 1..Longer(f) :
            Str(i - 1) \in DOMAIN EntryOf(f).items <=> (i <= Shorter(f) /\ IsTrue(ElemDelta(f, i)))

\* C25: the delta of a list field has an entry under an index for every
\* position up to the end of the longer list whose element-level delta is
\* non-empty, an element one list lacks being compared as None, and that
\* entry is the element-level delta; it has no other index entries.
C25_IndexEntriesUpToLongerList ==
    call.op = "deltas" =>
        \A f \in ListFields :
            /\ \A i \in 1..Longer(f) :
                   /\ Str(i - 1) \in DOMAIN EntryOf(f).items <=> IsTrue(ElemDelta(f, i))
                   /\ IsTrue(ElemDelta(f, i)) => EntryOf(f).items[Str(i - 1)] = ElemDelta(f, i)
            /\ DOMAIN EntryOf(f).items \subseteq {<<"added">>, <<"removed">>} \cup {Str(i - 1) : i \in 1..Longer(f)}

\* an element appended after the snapshot is reported under its own index
C25_Witness ==
    /\ call.op = "deltas"
    /\ Held(snapshot, <<"foods">>) = ListV(<<StrV(<<"a">>), StrV(<<"b">>)>>)
    /\ Held(record, <<"foods">>) = ListV(<<StrV(<<"a">>), StrV(<<"b">>), StrV(<<"c">>)>>)
    /\ EntryOf(<<"foods">>).items[<<"2">>] = OldNew(NoneV, StrV(<<"c">>))

\* the value a document holds for a field, None for an absent document
SubOf(v, g) == IF v.kind = "doc" THEN Held(v, g) ELSE NoneV
\* the delta of field g of an embedded document, current against base
SubDelta(document, cur_v, base_v, g) ==
    FieldDeltas(FieldOf(document, g), SubOf(cur_v, g), SubOf(base_v, g))
\* the delta d has an entry for exactly the fields whose own delta is non-empty
EntriesMatch(document, d, cur_v, base_v) ==
    /\ \A g \in FieldNames(document) :
           /\ g \in DOMAIN d.items <=> IsTrue(SubDelta(document, cur_v, base_v, g))
           /\ g \in DOMAIN d.items => d.items[g] = SubDelta(document, cur_v, base_v, g)
    /\ d = EmptyDelta <=> \A g \in FieldNames(document) : ~IsTrue(SubDelta(document, cur_v, base_v, g))

\* C26: for every pair (current, base) of an embedded-document field, an
\* absent current or an absent base included, the delta has an entry for a
\* field exactly when that field's own delta is non-empty, and is empty
\* exactly when every such delta is empty.
C26_EmbeddedEntryIffFieldDelta ==
    call.op = "deltas" =>
        /\ EntriesMatch("User", ret, record, snapshot)
        /\ EntriesMatch("Contacts", EntryOf(<<"contacts">>),
                        Held(record, <<"contacts">>), Held(snapshot, <<"contacts">>))

\* ------------------------------------------------------------------------
\* Properties of from_json
\* ------------------------------------------------------------------------
\* C24: the delta from_json returns has an entry under a field of the
\* schema exactly when from_json changed the value the document holds for
\* that field: a list replaced, shortened or extended and a nested embedded
\* document changed included.
C24_FromJsonEntryIffFieldChanged ==
    call.op = "from_json" =>
        \A f \in FieldNames("User") : f \in DOMAIN ret.items <=> Held(record, f) # Held(before, f)

\* ------------------------------------------------------------------------
\* Properties of the snapshot
\* ------------------------------------------------------------------------
\* C22: every successful save() or reload() of a change-tracking document
\* supersedes its snapshot with a fresh copy of the document, so that the
\* deltas computed right afterwards are empty and deltas report only what
\* changed since the most recent save or reload.
C22_SaveAndReloadRefreshSnapshot ==
    (call.op \in {"save", "reload"} /\ ret = NoneV) =>
        /\ snapshot = record
        /\ EmbeddedDeltas("User", record, snapshot) = EmptyDelta

\* ------------------------------------------------------------------------
\* Properties of the operands of the expression algebra
\* ------------------------------------------------------------------------
\* C27: &, | , ~ and compile never modify the expressions they are applied
\* to: every expression constructed earlier still compiles to the document
\* it compiled to before, also after a merged result is merged again; the
\* list of a pushAll and the child list of an OR node are never extended in
\* place.
C27_OperandsAreNeverModified ==
    \A i \in 1..Len(live) :
        /\ live[i] = log[i].arg
        /\ IsQuery(live[i]) => QCompiles(live[i]) = QCompiles(log[i].arg)

\* ------------------------------------------------------------------------
\* Two tracked documents as objects (conjure/documents.py)
\*
\* A document is an object with a _data dict; a list field of it is a list
\* object of its own.  The heap holds the objects, an address is a position
\* in it; assignment rebinds a name of a _data dict, append, set_field on an
\* index and from_json write into the list object they are given.
\* ------------------------------------------------------------------------
DataObj(name, foods) == [kind |-> "data", name |-> name, foods |-> foods, l |-> <<>>]
ListObj(xs)          == [kind |-> "list", name |-> "", foods |-> 0, l |-> xs]
Put(h, a, obj) == [h EXCEPT ![a] = obj]

\* the result of a constructor or a copy: the heap and the address of the new _data
At(h, a) == [heap |-> h, at |-> a]

\* copy.copy(self): a second document on the same _data
ShallowCopy(h, a) == At(h, a)

\* copy.deepcopy(self): a new _data with a new list
DeepCopy(h, a) ==
    LET h1 == Append(h, ListObj(h[h[a].foods].l))
        h2 == Append(h1, DataObj(h[a].name, Len(h1)))
    IN  At(h2, Len(h2))

\* BaseDocument.__init__(**data): a _data dict holding the values given
NewData(h, name, xs) ==
    LET h1 == Append(h, ListObj(xs))
        h2 == Append(h1, DataObj(name, Len(h1)))
    IN  At(h2, Len(h2))

\* the users the two documents are constructed from
HNames == {"a", "None"}
HLists == {<<>>, <<"a">>}

\* Document.__init__ of two documents: self._base = copy.deepcopy(self)
HInit ==
    /\ \E n2 \in HNames, xs1 \in HLists, xs2 \in HLists :
           LET d1 == NewData(<<>>, "a", xs1)
               b1 == DeepCopy(d1.heap, d1.at)
               d2 == NewData(b1.heap, n2, xs2)
               b2 == DeepCopy(d2.heap, d2.at)
           IN  /\ heap = b2.heap
               /\ data_of = <<d1.at, d2.at>>
               /\ base_of = <<b1.at, b2.at>>
    /\ acted = 0
    /\ steps = 0
    /\ SIdle /\ RIdle /\ EIdle /\ CIdle

\* a statement on document i that leaves the heap h
Acted(i, h) ==
    /\ steps < MaxCalls
    /\ steps' = steps + 1
    /\ acted' = i
    /\ heap' = h
    /\ UNCHANGED <<data_of, base_of, vars, RVars, EVars, CVars>>

FoodsOf(i) == heap[data_of[i]].foods

\* user.name = v
HAssign ==
    \E i \in 1..2, v \in {"a", "z"} :
        Acted(i, Put(heap, data_of[i], DataObj(v, FoodsOf(i))))

\* user.foods = xs: the name is bound to the list given
HAssignList ==
    \E i \in 1..2 :
        LET h1 == Append(heap, ListObj(<<"z">>))
        IN  Acted(i, Put(h1, data_of[i], DataObj(heap[data_of[i]].name, Len(h1))))

\* user.foods.append(v)
HAppend ==
    \E i \in 1..2 :
        Acted(i, Put(heap, FoodsOf(i), ListObj(Append(heap[FoodsOf(i)].l, "c"))))

\* set_field('foods.0', v, user): getattr(cur_val, field)[index] = v, IndexError on an empty list
HSetField ==
    \E i \in 1..2 :
        LET xs == heap[FoodsOf(i)].l
        IN  Acted(i, IF xs = <<>> THEN heap ELSE Put(heap, FoodsOf(i), ListObj([xs EXCEPT ![1] = "z"])))

\* from_json(j, user): a new name is stored in _data, the list is cut,
\* filled up and written position by position where it is
HFromJson ==
    \E i \in 1..2, j \in {[name |-> "z", foods |-> <<>>], [name |-> "a", foods |-> <<"a", "c">>]} :
        Acted(i, Put(Put(heap, data_of[i], DataObj(j.name, FoodsOf(i))), FoodsOf(i), ListObj(j.foods)))

HNext == HAssign \/ HAssignList \/ HAppend \/ HSetField \/ HFromJson

CopySpec == HInit /\ [][HNext]_HVars

\* what a document holds: its name and the elements of its list
Contents(h, a) == [name |-> h[a].name, foods |-> h[h[a].foods].l]

\* C23: the snapshot is a deep copy: no statement on a document (assignment
\* to an attribute, append to a list in place, set_field, from_json) changes
\* what its snapshot holds, and a statement on one document changes neither
\* the snapshot nor the values of the other.
C23_SnapshotIsDeepCopy ==
    [][\A i \in 1..2 :
          /\ Contents(heap', base_of'[i]) = Contents(heap, base_of[i])
          /\ i # acted' => Contents(heap', data_of'[i]) = Contents(heap, data_of[i])]_HVars

\* a document whose list was written in place differs from its snapshot
C23_Witness ==
    /\ acted = 1
    /\ FoodsOf(1) < base_of[1]
    /\ Contents(heap, data_of[1]).foods # Contents(heap, base_of[1]).foods
    /\ Contents(heap, data_of[1]).name # Contents(heap, base_of[1]).name

\* ------------------------------------------------------------------------
\* Eagerload (mongoalchemy/eagerload.py)
\*
\* What a document holds for a reference: nothing, the id of the document
\* referred to, or that document once it is loaded.  A document of the
\* model has one single-valued and one list-valued reference field.
\* ------------------------------------------------------------------------
NoRef     == [t |-> "none", id |-> 0]
IdRef(n)  == [t |-> "id", id |-> n]
Loaded(n) == [t |-> "doc", id |-> n]
Referring(one, many) == [one |-> one, many |-> many]

\* the ids of the documents of the referenced collection
StoreIds == {1, 2}

\* ReferenceField.add_to_document, property name + '_id': the id held, the
\* id of the document held
ProxyId(r) == IF r.t = "doc" THEN IdRef(r.id) ELSE r

\* ListField.add_to_document, property name + '_': the documents of the
\* list are replaced by their ids where the list is, and the list returned
ProxyList(d) == Referring(d.one, [i \in 1..Len(d.many) |-> ProxyId(d.many[i])])

\* the documents add_documents is called with
OneDocs  == {Referring(r, <<>>) : r \in {NoRef, IdRef(1), IdRef(2), IdRef(3)}}
ManyDocs == {Referring(NoRef, xs) : xs \in {<<>>, <<IdRef(1)>>, <<IdRef(1), IdRef(2)>>,
                                            <<IdRef(3), IdRef(1)>>, <<IdRef(2), IdRef(2)>>}}

\* Eagerload.__init__: multi for a ListField, no documents yet
EInit ==
    /\ documents = <<>>
    /\ refs = <<>>
    /\ multi \in BOOLEAN
    /\ flushes = 0
    /\ SIdle /\ RIdle /\ HIdle /\ CIdle

\* Eagerload.add_documents: a list extends self.documents, anything else is appended
DoAddDocuments ==
    \E d1 \in (IF multi THEN ManyDocs ELSE OneDocs), d2 \in (IF multi THEN ManyDocs ELSE OneDocs), n \in 1..2, islist \in BOOLEAN :
        LET given == IF n = 1 THEN <<d1>> ELSE <<d1, d2>>
        IN  /\ islist \/ n = 1
            /\ Len(documents) + n <= MaxDocs
            /\ documents' = documents \o given
            /\ refs' = refs \o given
            /\ flushes' = 0
            /\ UNCHANGED <<multi, vars, RVars, HVars, CVars>>

\* the ids flush collects: getattr(document, self.name) of every document,
\* the ones that are not false
IdsOf(docs) ==
    IF multi THEN UNION {{docs[i].many[k].id : k \in 1..Len(docs[i].many)} : i \in 1..Len(docs)}
    ELSE {ProxyId(docs[i].one).id : i \in {j \in 1..Len(docs) : docs[j].one.t # "none"}}

RECURSIVE FlushValues(_, _)
\* the loop 'for value in values: for document in self.documents'
FlushValues(docs, values) ==
    IF values = <<>> THEN docs
    ELSE LET value == Head(values)
         IN  FlushValues([i \in 1..Len(docs) |->
                             IF multi
                             THEN Referring(docs[i].one,
                                            [k \in 1..Len(docs[i].many) |->
                                                IF docs[i].many[k] = IdRef(value) THEN Loaded(value)
                                                ELSE docs[i].many[k]])
                             ELSE Referring(Loaded(value), docs[i].many)],
                         Tail(values))

\* Eagerload.flush: values are the documents the collection has for the
\* ids, in the order the collection returns them
DoFlush ==
    /\ flushes < MaxCalls
    /\ flushes' = flushes + 1
    /\ LET seen == IF multi THEN [i \in 1..Len(documents) |-> ProxyList(documents[i])] ELSE documents
           ids  == IdsOf(seen)
       IN  IF Len(documents) = 0 THEN UNCHANGED documents
           ELSE \E values \in Orders(ids \cap StoreIds) : documents' = FlushValues(seen, values)
    /\ UNCHANGED <<refs, multi, vars, RVars, HVars, CVars>>

ENext == DoAddDocuments \/ DoFlush

EagerSpec == EInit /\ [][ENext]_EVars

\* C28: after flush() on a single-valued reference field, every document
\* added whose referenced id was loaded holds the loaded document with that
\* id, documents with different targets hold different documents, and a
\* document that referred to nothing still refers to nothing.
C28_FlushGivesEachDocumentItsOwnTarget ==
    (flushes > 0 /\ ~multi) =>
        \A i \in 1..Len(documents) :
            /\ refs[i].one.t = "none" => documents[i].one = NoRef
            /\ (refs[i].one.t # "none" /\ refs[i].one.id \in StoreIds) =>
                   documents[i].one = Loaded(refs[i].one.id)

\* ------------------------------------------------------------------------
\* The connection cache (conjure/connection.py)
\*
\* connections is the dict _connections, created lists the keys of the
\* Connection objects made so far (a connection is named by its position),
\* asked and answer list the calls of connect and what they returned.
\* ------------------------------------------------------------------------
Host(name, port) == [name |-> name, port |-> port]
HostLists == {<<Host("a", 1)>>, <<Host("b", 2)>>, <<Host("a", 1), Host("b", 2)>>, <<Host("b", 2), Host("a", 1)>>}

\* ','.join(['%s:%d' % host for host in hosts])
HostKey(hostlist) == Join([i \in 1..Len(hostlist) |-> <<hostlist[i].name, ":">> \o Str(hostlist[i].port)], ",")

\* what connect returns: the database of a connection, or the exception raised
Db(connection, database) == [connection |-> connection, database |-> database, exc |-> ""]
ConnectionError == [connection |-> 0, database |-> "", exc |-> "ConnectionError"]

\* the outcome of _get_connection: the cache, the connections made, the connection returned (0 when it raised)
Got(cache, made, connection) == [connections |-> cache, created |-> made, connection |-> connection]

\* a _get_connection that makes a connection at every call
GetConnectionAnew(cache, made, hostlist, fails) ==
    LET key == HostKey(hostlist)
    IN  IF fails THEN Got(cache, made, 0)
        ELSE Got(DictSet(cache, key, Len(made) + 1), Append(made, key), Len(made) + 1)

\* _get_connection(hosts): the cached connection of the key, else a new
\* Connection stored under the key; when Connection raises nothing is stored
GetConnection(cache, made, hostlist, fails) ==
    LET key == HostKey(hostlist)
    IN  IF key \in DOMAIN cache THEN Got(cache, made, cache[key])
        ELSE IF fails THEN Got(cache, made, 0)
        ELSE Got(DictSet(cache, key, Len(made) + 1), Append(made, key), Len(made) + 1)

\* module connection.py loaded: _connections = {}
CInit ==
    /\ connections = EmptyDict
    /\ created = <<>>
    /\ answer = <<>>
    /\ asked = <<>>
    /\ SIdle /\ RIdle /\ HIdle /\ EIdle

\* connect(uri): the hosts and the database of the uri; Connection(hosts)
\* raises or not, as the servers are reachable or not
DoConnect ==
    /\ Len(asked) < MaxConnects
    /\ \E hostlist \in HostLists, database \in {"m", "n"}, fails \in BOOLEAN :
           LET g == GetConnection(connections, created, hostlist, fails)
           IN  /\ connections' = g.connections
               /\ created' = g.created
               /\ asked' = Append(asked, HostKey(hostlist))
               /\ answer' = Append(answer, IF g.connection = 0 THEN ConnectionError
                                           ELSE Db(g.connection, database))
    /\ UNCHANGED <<vars, RVars, HVars, EVars>>

CNext == DoConnect

ConnSpec == CInit /\ [][CNext]_CVars

\* C29: over any sequence of connect calls at most one Connection is made
\* per key of a host list; a call with a cached key returns that same
\* connection; a creation that fails raises ConnectionError, leaves the
\* cache as it was and is tried again at the next call with the key.
C29_OneConnectionPerKey ==
    /\ \A i, j \in 1..Len(created) : created[i] = created[j] => i = j
    /\ DOMAIN connections = {created[i] : i \in 1..Len(created)}
    /\ \A i \in 1..Len(created) : connections[created[i]] = i
    /\ \A i \in 1..Len(asked) :
           /\ answer[i].exc = "" =>
                  /\ created[answer[i].connection] = asked[i]
                  /\ \A j \in i..Len(asked) :
                         asked[j] = asked[i] => answer[j].exc = "" /\ answer[j].connection = answer[i].connection
           /\ answer[i].exc # "" =>
                  /\ answer[i] = ConnectionError
                  /\ \A j \in 1..(i - 1) : asked[j] = asked[i] => answer[j].exc # ""
                  /\ (i = Len(asked) => asked[i] \notin DOMAIN connections)

\* a key whose connection failed, was made at the next call and came from the cache after that
C29_Witness ==
    /\ Len(asked) = 3 /\ asked[1] = asked[2] /\ asked[2] = asked[3]
    /\ answer[1] = ConnectionError
    /\ answer[2].exc = "" /\ answer[3].exc = ""
    /\ answer[2].connection = answer[3].connection
    /\ Len(created) = 1

====
